---------------------------- MODULE Spec2Model ----------------------------
(***************************************************************************)
(* A model of OmniFuzz's multi-agent decision-and-training engine.        *)
(*                                                                         *)
(* Part I   experience stores (src/src/core/experience_buffer.py):        *)
(*          ExperienceBuffer and PrioritizedExperienceBuffer.              *)
(* Part II  the multi-protocol coordinator                                 *)
(*          (src/src/training/multi_agent_coordinator.py).                 *)
(* Part III the training loop (src/src/training/trainer.py).              *)
(* Part IV  the per-protocol agent array (src/src/core/agent_array.py,    *)
(*          src/src/core/protocol_agent.py).                               *)
(* Part V   the reward calculator                                          *)
(*          (src/src/training/reward_calculator.py).                       *)
(* Part VI  the trainer's model files (save_models and load_models of      *)
(*          src/src/training/trainer.py).                                  *)
(* Part VII the mutation engine (src/src/fuzzing/mutation_engine.py).      *)
(* Part VIII the coverage tracker (src/src/fuzzing/coverage_tracker.py).   *)
(*                                                                         *)
(* Numbers.  Priorities are floats in the code.  The model measures them   *)
(* in integer units; a Python float (float64) holds any unit, the float32  *)
(* priority array holds only the multiples of Float32Step, and a store     *)
(* into the array rounds to the nearest one.  1.0 is Float32Step units.    *)
(* Probabilities and importance weights are exact rationals <<n, d>>,      *)
(* d > 0, in lowest terms.  The exponents alpha and beta are constructor   *)
(* arguments; the model takes them from small sets of integers, for which  *)
(* x ** alpha is computed exactly.                                         *)
(***************************************************************************)
EXTENDS Integers, Sequences, FiniteSets, TLC

VARIABLES
    \* ---- Part I: one experience store
    capacity,       \* ExperienceBuffer.capacity
    prioritized,    \* TRUE: the object is a PrioritizedExperienceBuffer
    buffer,         \* ExperienceBuffer.buffer: sequence of records; slot i is buffer[i+1]
    position,       \* ExperienceBuffer.position (write cursor, 0-based)
    priorities,     \* PrioritizedExperienceBuffer.priorities: [0..capacity-1 -> float32]
    max_priority,   \* PrioritizedExperienceBuffer.max_priority (Python float)
    alpha,          \* PrioritizedExperienceBuffer.alpha
    beta,           \* PrioritizedExperienceBuffer.beta
    adds,           \* history: add calls since construction or the last clear
    updated,        \* history: update_priorities was called
    ret             \* the last call on the store and what it returned

VARIABLES
    \* ---- Part II: one MultiAgentCoordinator and the threads it starts
    agent_arrays,       \* keys of MultiAgentCoordinator.agent_arrays
    cpc,                \* where the coordinating thread is
    episode,            \* coordinate_training: episodes completed
    step_count,         \* _run_coordinated_episode: step_count
    observations,       \* _run_coordinated_episode: observations, per protocol
    next_observations,  \* the environment's last next_observations, per protocol
    done,               \* the environment's last done flag
    actions,            \* the actions dict of the current step: protocol -> producer
    pending,            \* protocols the running spawn loop has not reached yet
    threads,            \* the threads list of the running phase, in start order
    joined,             \* how many threads of that list the join loop has joined
    selT,               \* per protocol: the state of its select thread
    updT,               \* per protocol: the state of its update thread
    noticed,            \* worker failures the coordinating thread has learned of in the running phase
    info,               \* the environment's last info, see InfoReports
    vulnerabilities_found, \* _run_coordinated_episode: length of the vulnerabilities_found list
    coordination_stats, \* MultiAgentCoordinator.coordination_stats
    hist,               \* history: environment.step calls made, and vulnerabilities they reported
    reports,            \* the info values the environment given to coordinate_training can return
    max_workers         \* MultiAgentCoordinator.max_workers

VARIABLES
    \* ---- Part III: one OmniFuzzTrainer
    tr_agent_arrays,      \* keys of OmniFuzzTrainer.agent_arrays
    tr_buffer_size,       \* config['training']['buffer_size']
    tr_batch_size,        \* config['training']['batch_size']
    tr_num_episodes,      \* train: num_episodes
    tr_env,               \* what the environment given to the trainer can return
    tr_pc,                \* where train / _run_episode is
    tr_episode,           \* train: episodes completed
    tr_step_count,        \* _run_episode: step_count
    tr_total_reward,      \* _run_episode: total_reward
    tr_observations,      \* _run_episode: observations, per protocol
    tr_actions,           \* _run_episode: keys of the actions dict of the step
    tr_next_observations, \* the environment's last next_observations
    tr_reward,            \* the environment's last reward
    tr_done,              \* the environment's last done flag
    experience_buffers,   \* OmniFuzzTrainer.experience_buffers: protocol -> store
    tr_calls,             \* history: the calls the running step has made, in order
    tr_batch,             \* history: the batch the running step gave to update_policies
    tr_update,            \* history: per record of that batch, the rewards the agents'
                          \* update_policy computed the record's advantage from
    tr_hist,              \* history of the running episode: diversity resets made, done
                          \* reported by an earlier step, calls made after such a step
    episode_rewards,      \* OmniFuzzTrainer.training_stats['episode_rewards']
    tr_early_stop,        \* train: what _check_early_stopping returned last
    tr_summary,           \* what train returned: <<>> nothing yet, <<summary>>
    tr_exception          \* "none", or the call whose exception left train

VARIABLES
    \* ---- Part IV: one AgentArray
    ctor,                  \* history: the arguments AgentArray.__init__ was given
    field_config,          \* AgentArray.field_config: the declared fields, in map order
    shared_value_network,  \* AgentArray.shared_value_network: a reference
    agents,                \* AgentArray.agents: sequence of ProtocolAgent objects
    critic_state,          \* the shared value network: its parameters and gradient buffers
    array_updates,         \* history: update_policies and update_policy calls made
    array_ret              \* the last call on the array, its arguments and its result

VARIABLES
    \* ---- Part V: one RewardCalculator
    vulnerability_weights,       \* RewardCalculator.vulnerability_weights: severity -> score
    reward_weights,              \* RewardCalculator.reward_weights: the three weights
    discovered_vulnerabilities,  \* RewardCalculator.discovered_vulnerabilities: a set of labels
    labels_passed,               \* history: the labels passed since the last reset
    rw_ret                       \* the last call on the calculator, its argument and its result

VARIABLES
    \* ---- Part VI: one OmniFuzzTrainer and the directory save_models writes to
    sv_agent_arrays,   \* OmniFuzzTrainer.agent_arrays, in dict order: protocol and the
                       \* field names of its agents, in agent-list order
    files,             \* the files under save_dir: <<protocol directory, file name>>
    sv_pc,             \* where save_models is
    sv_i,              \* save_models: the agent array the outer loop is at
    sv_j,              \* save_models: the agent the inner loop is at
    sv_writes,         \* history: the torch.save calls of the last save_models call:
                       \* the path written, and <<field>> for the policy of a field's
                       \* agent, <<>> for the shared value network
    sv_saves,          \* history: save_models calls completed
    dirs,              \* the protocol directories under save_dir / load_dir
    params,            \* per network of the trainer, the parameters it holds: <<>> its
                       \* own, as constructed, or the path of the file they were loaded from
    sv_log             \* history: the logger calls of the last save_models / load_models call

VARIABLES
    \* ---- Part VII: one MutationEngine and one call on it
    protocol_config,   \* MutationEngine.protocol_config['fields']: per declared field
                       \* its position <<start, end>>, is_flag and is_numeric
    me_args,           \* the arguments of the call: a message (sequence of bytes),
                       \* mutation_actions in dict order, a field name
    me_ret             \* the call made and what it returned

VARIABLES
    \* ---- Part VIII: one CoverageTracker
    basic_blocks_covered,  \* set of block names
    functions_covered,     \* set of function names
    execution_paths,       \* set of path hashes
    coverage_stats,        \* total_basic_blocks, total_functions, unique_paths and
                           \* coverage_over_time, the list of the dicts returned so far
    path_depths,           \* defaultdict(int): the keys present, each with its count
    cv_hist,               \* history: the execution sequences recorded since the last
                           \* reset_coverage, the arguments of the last record_execution
                           \* since then, and the number of record_execution calls made
    cv_ret                 \* the last call: its name, its arguments, the three sets as
                           \* they were when it began, and what it returned

storeVars == <<capacity, prioritized, buffer, position, priorities,
               max_priority, alpha, beta, adds, updated, ret>>

coordVars == <<agent_arrays, cpc, episode, step_count, observations,
               next_observations, done, actions, pending, threads, joined,
               selT, updT, noticed, info, vulnerabilities_found, coordination_stats, hist, reports,
               max_workers>>

trainVars == <<tr_agent_arrays, tr_buffer_size, tr_batch_size, tr_num_episodes,
               tr_env, tr_pc, tr_episode, tr_step_count,
               tr_total_reward, tr_observations, tr_actions, tr_next_observations,
               tr_reward, tr_done, experience_buffers, tr_calls, tr_batch, tr_update, tr_hist,
               episode_rewards, tr_early_stop, tr_summary, tr_exception>>

arrayVars == <<ctor, field_config, shared_value_network, agents, critic_state,
               array_updates, array_ret>>

rewardVars == <<vulnerability_weights, reward_weights, discovered_vulnerabilities,
                labels_passed, rw_ret>>

saveVars == <<sv_agent_arrays, files, sv_pc, sv_i, sv_j, sv_writes, sv_saves,
              dirs, params, sv_log>>

mutationVars == <<protocol_config, me_args, me_ret>>

coverageVars == <<basic_blocks_covered, functions_covered, execution_paths,
                  coverage_stats, path_depths, cv_hist, cv_ret>>

\* what the actions of one part leave alone
notStoreVars == <<coordVars, trainVars, arrayVars, rewardVars, saveVars, mutationVars, coverageVars>>
notCoordVars == <<storeVars, trainVars, arrayVars, rewardVars, saveVars, mutationVars, coverageVars>>
notTrainVars == <<storeVars, coordVars, arrayVars, rewardVars, saveVars, mutationVars, coverageVars>>
notArrayVars == <<storeVars, coordVars, trainVars, rewardVars, saveVars, mutationVars, coverageVars>>
notRewardVars == <<storeVars, coordVars, trainVars, arrayVars, saveVars, mutationVars, coverageVars>>
notSaveVars == <<storeVars, coordVars, trainVars, arrayVars, rewardVars, mutationVars, coverageVars>>
notMutationVars == <<storeVars, coordVars, trainVars, arrayVars, rewardVars, saveVars, coverageVars>>
notCoverageVars == <<storeVars, coordVars, trainVars, arrayVars, rewardVars, saveVars, mutationVars>>

vars == <<storeVars, coordVars, trainVars, arrayVars, rewardVars, saveVars, mutationVars,
          coverageVars>>

----------------------------------------------------------------------------
(* Bounds of the model *)

MaxCapacity == 2    \* store capacities 1..MaxCapacity
MaxAdds == 3        \* add calls between two clears
MaxBatch == 2       \* batch sizes 1..MaxBatch
MaxUpdates == 1     \* length of the lists given to update_priorities
Float32Step == 4    \* units between two neighbouring float32 values; also 1.0
NumEpisodes == 2    \* num_episodes given to coordinate_training
StepLimit == 2      \* stands for the 1000 steps that end an episode
MaxVulns == 1       \* vulnerabilities one environment.step reports at most
MaxReward == 1      \* rewards 0..MaxReward returned by environment.step
MaxFields == 2      \* fields a protocol declares at most
MaxArrayUpdates == 2 \* update_policies calls on one agent array
MaxFindings == 2    \* vulnerabilities one fuzzing result lists at most
MaxLabels == 2      \* vulnerability-type labels one fuzzing result lists at most
TrainEpisodes == 3  \* num_episodes given to train: 0..TrainEpisodes
TrainStepLimit == 3 \* stands for the 1000 steps that end an episode of the trainer
UpdateEvery == 2    \* stands for the 10 of "if step_count % 10 == 0" in _run_episode
StopWindow == 2     \* stands for the 20 episodes of _check_early_stopping
MaxSaves == 2       \* save_models calls on one trainer
MaxMessage == 3     \* bytes of a protocol message at most
MaxPadding == 1     \* stands for the 100 bytes _pad_field appends at most
MaxRecords == 2     \* record_execution calls on the tracker at most

\* the <<alpha, beta>> pairs a prioritized store is constructed with
Exponents == {<<1, 1>>, <<2, 2>>}

\* priorities passed to update_priorities: a negative one, zero, and a float
\* between 1.0 and the next float32 value above it, nearer to the latter
PriorityInputs == {-Float32Step, 0, 2 * Float32Step - 1}

----------------------------------------------------------------------------
(* Number helpers *)

Abs(x) == IF x < 0 THEN -x ELSE x

RECURSIVE GCD(_, _)
GCD(a, b) == IF b = 0 THEN a ELSE GCD(b, a % b)

\* the rational n/d (d # 0) in lowest terms with a positive denominator
Rat(n, d) ==
    LET g == GCD(Abs(n), Abs(d))
        s == IF d < 0 THEN -1 ELSE 1
    IN  <<(s * n) \div g, (s * d) \div g>>

RAdd(x, y) == Rat(x[1] * y[2] + y[1] * x[2], x[2] * y[2])
RMul(x, y) == Rat(x[1] * y[1], x[2] * y[2])
RDiv(x, y) == Rat(x[1] * y[2], x[2] * y[1])
RLeq(x, y) == x[1] * y[2] <= y[1] * x[2]
RLt(x, y) == x[1] * y[2] < y[1] * x[2]
ROne == <<1, 1>>
RZero == <<0, 1>>

RECURSIVE IntPow(_, _)
IntPow(x, e) == IF e = 0 THEN 1 ELSE x * IntPow(x, e - 1)

\* x ** (-e) for a positive rational x
RPowNeg(x, e) == Rat(IntPow(x[2], e), IntPow(x[1], e))

RECURSIVE RSum(_)
RSum(s) == IF s = <<>> THEN RZero ELSE RAdd(Head(s), RSum(Tail(s)))

RECURSIVE RMax(_)
RMax(s) == IF Len(s) = 1 THEN s[1]
           ELSE LET m == RMax(Tail(s)) IN IF RLeq(m, s[1]) THEN s[1] ELSE m

\* Python's max(a, b)
Max(a, b) == IF b > a THEN b ELSE a

\* a store of a Python float into the float32 array: round to the nearest
\* float32 value (ties to the even multiple)
F32(x) ==
    LET lo == (x \div Float32Step) * Float32Step
        r == x - lo
    IN  IF 2 * r < Float32Step THEN lo
        ELSE IF 2 * r > Float32Step THEN lo + Float32Step
        ELSE IF (lo \div Float32Step) % 2 = 0 THEN lo ELSE lo + Float32Step


----------------------------------------------------------------------------
(* Part I.  ExperienceBuffer / PrioritizedExperienceBuffer *)

NoWeight == <<>>

\* a transition record as the store sees it: its identity (the 0-based index
\* of the add call that brought it) and the 'weight' key, absent until attached
Record(n) == [id |-> n, weight |-> NoWeight]

NoRet == [op |-> "none", ok |-> TRUE, k |-> 0, indices |-> <<>>, records |-> <<>>,
          weights |-> <<>>, probs |-> <<>>, slot |-> 0, maxAtCall |-> 0]

\* ExperienceBuffer.__init__ / PrioritizedExperienceBuffer.__init__
StoreInit ==
    /\ capacity \in 1..MaxCapacity
    /\ prioritized \in BOOLEAN
    /\ buffer = <<>>
    /\ position = 0
    /\ priorities = [i \in 0..(capacity - 1) |-> 0]
    /\ max_priority = Float32Step
    /\ \E e \in (IF prioritized THEN Exponents ELSE {<<0, 0>>}) :
          /\ alpha = e[1]
          /\ beta = e[2]
    /\ adds = 0
    /\ updated = FALSE
    /\ ret = NoRet

\* ExperienceBuffer.add: the buffer after the call
BufferAfterAdd(buf, pos, cap, rec) ==
    IF Len(buf) < cap THEN Append(buf, rec) ELSE [buf EXCEPT ![pos + 1] = rec]

\* the slot the new record went to
SlotWritten(buf, pos, cap) == IF Len(buf) < cap THEN Len(buf) ELSE pos

\* ExperienceBuffer.add: the cursor after the call
PositionAfterAddNoWrap(pos, cap) == pos + 1

PositionAfterAdd(pos, cap) == (pos + 1) % cap

\* ExperienceBuffer.add on a plain store
Add ==
    /\ ~prioritized
    /\ adds < MaxAdds
    /\ buffer' = BufferAfterAdd(buffer, position, capacity, Record(adds))
    /\ position' = PositionAfterAdd(position, capacity)
    /\ adds' = adds + 1
    /\ ret' = [NoRet EXCEPT !.op = "add",
                            !.slot = SlotWritten(buffer, position, capacity)]
    /\ UNCHANGED <<capacity, prioritized, priorities, max_priority, alpha, beta, updated>>
    /\ UNCHANGED notStoreVars

\* PrioritizedExperienceBuffer.add: super().add(experience), then the priority
\* is stored at self.position, the cursor super().add has already advanced
PrioritizedAdd ==
    /\ prioritized
    /\ adds < MaxAdds
    /\ buffer' = BufferAfterAdd(buffer, position, capacity, Record(adds))
    /\ position' = PositionAfterAdd(position, capacity)
    /\ priorities' = [priorities EXCEPT ![position'] = F32(max_priority)]
    /\ adds' = adds + 1
    /\ ret' = [NoRet EXCEPT !.op = "add",
                            !.slot = SlotWritten(buffer, position, capacity),
                            !.maxAtCall = max_priority]
    /\ UNCHANGED <<capacity, prioritized, max_priority, alpha, beta, updated>>
    /\ UNCHANGED notStoreVars

\* ExperienceBuffer.clear (inherited unchanged by the prioritized store)
Clear ==
    /\ buffer' = <<>>
    /\ position' = 0
    /\ adds' = 0
    /\ ret' = [NoRet EXCEPT !.op = "clear"]
    /\ UNCHANGED <<capacity, prioritized, priorities, max_priority, alpha, beta, updated>>
    /\ UNCHANGED notStoreVars

Injective(s) == \A i, j \in DOMAIN s : i # j => s[i] # s[j]

\* ExperienceBuffer.sample: the slot sequences it can return, n records stored
SampleIndicesWithReplacement(n, k) ==
    IF n < k THEN {[j \in 1..n |-> j - 1]}
    ELSE [1..k -> 0..(n - 1)]

SampleIndices(n, k) ==
    IF n < k THEN {[j \in 1..n |-> j - 1]}                       \* self.buffer.copy()
    ELSE {s \in [1..k -> 0..(n - 1)] : Injective(s)}            \* random.sample

RecordsAt(buf, idx) == [j \in DOMAIN idx |-> buf[idx[j] + 1]]

\* ExperienceBuffer.sample on a plain store
Sample ==
    /\ ~prioritized
    /\ \E k \in 1..MaxBatch :
         \E idx \in SampleIndices(Len(buffer), k) :
            ret' = [NoRet EXCEPT !.op = "sample", !.k = k, !.indices = idx,
                                 !.records = RecordsAt(buffer, idx)]
    /\ UNCHANGED <<capacity, prioritized, buffer, position, priorities,
                   max_priority, alpha, beta, adds, updated>>
    /\ UNCHANGED notStoreVars

\* priorities = self.priorities[:len(self.buffer)]; probs = priorities ** self.alpha
Powered(prios, n, a) == [i \in 1..n |-> IntPow(prios[i - 1], a)]

RECURSIVE IntSum(_)
IntSum(s) == IF s = <<>> THEN 0 ELSE Head(s) + IntSum(Tail(s))

\* probs /= probs.sum()   (used only where the sum is not 0)
Probs(q) == [i \in DOMAIN q |-> Rat(q[i], IntSum(q))]

\* np.random.choice(n, k, p=probs) raises ValueError when p holds a NaN or an
\* infinity (the sum was 0) or a negative probability
ChoiceRaises(q) ==
    \/ IntSum(q) = 0
    \/ \E i \in DOMAIN q : RLt(Probs(q)[i], RZero)

\* np.random.choice(n, k, p=probs): k indices with replacement, each of
\* non-zero probability
Choice(n, k, p) == [1..k -> {i \in 0..(n - 1) : RLt(RZero, p[i + 1])}]

\* weights = (len(self.buffer) * probs[indices]) ** (-self.beta)
RawWeights(n, p, idx, b) ==
    [j \in DOMAIN idx |-> RPowNeg(RMul(Rat(n, 1), p[idx[j] + 1]), b)]

\* weights /= weights.max()
Normalised(w) == [j \in DOMAIN w |-> RDiv(w[j], RMax(w))]

\* for i, sample in enumerate(samples): sample['weight'] = weights[i]
\* (the samples are the stored dicts themselves; a later i overwrites)
AttachWeights(buf, idx, w) ==
    [i \in DOMAIN buf |->
        IF \E j \in DOMAIN idx : idx[j] = i - 1
        THEN LET last == CHOOSE j \in DOMAIN idx :
                            /\ idx[j] = i - 1
                            /\ \A l \in DOMAIN idx : idx[l] = i - 1 => l <= j
             IN  [buf[i] EXCEPT !.weight = w[last]]
        ELSE buf[i]]

\* the priority array after sample: probs is a new array, priorities is only read
PrioritiesPoweredInPlace(prios, n, a) ==
    [i \in DOMAIN prios |-> IF i < n THEN IntPow(prios[i], a) ELSE prios[i]]

PrioritiesAfterSample(prios, n, a) == prios

\* PrioritizedExperienceBuffer.sample
PrioritizedSample ==
    /\ prioritized
    /\ \E k \in 1..MaxBatch, n \in {Len(buffer)} :
        IF n < k
        THEN \E idx \in {[j \in 1..n |-> j - 1]}, w \in {[j \in 1..n |-> ROne]} :
                /\ buffer' = AttachWeights(buffer, idx, w)
                /\ priorities' = priorities
                /\ ret' = [NoRet EXCEPT !.op = "sample", !.k = k, !.indices = idx,
                                        !.weights = w,
                                        !.records = RecordsAt(buffer', idx)]
        ELSE \E q \in {Powered(priorities, n, alpha)} :
             IF ChoiceRaises(q)
             THEN /\ buffer' = buffer
                  /\ priorities' = PrioritiesAfterSample(priorities, n, alpha)
                  /\ ret' = [NoRet EXCEPT !.op = "sample", !.k = k, !.ok = FALSE]
             ELSE \E p \in {Probs(q)} :
                  \E idx \in Choice(n, k, p) :
                  \E raw \in {RawWeights(n, p, idx, beta)} :
                  \E w \in {Normalised(raw)} :
                    /\ buffer' = AttachWeights(buffer, idx, w)
                    /\ priorities' = PrioritiesAfterSample(priorities, n, alpha)
                    /\ ret' = [NoRet EXCEPT !.op = "sample", !.k = k,
                                            !.indices = idx, !.weights = w,
                                            !.probs = p,
                                            !.records = RecordsAt(buffer', idx)]
    /\ UNCHANGED <<capacity, prioritized, position, max_priority, alpha, beta,
                   adds, updated>>
    /\ UNCHANGED notStoreVars

\* PrioritizedExperienceBuffer.update_priorities: the loop over zip(indices,
\* priorities); the result is <<priority array, max_priority>>
RECURSIVE UpdateLoopLastAsMax(_, _, _, _)
UpdateLoopLastAsMax(prios, mx, idxs, ps) ==
    IF idxs = <<>> THEN <<prios, mx>>
    ELSE UpdateLoopLastAsMax([prios EXCEPT ![Head(idxs)] = F32(Head(ps))],
                             Head(ps), Tail(idxs), Tail(ps))

RECURSIVE UpdateLoop(_, _, _, _)
UpdateLoop(prios, mx, idxs, ps) ==
    IF idxs = <<>> THEN <<prios, mx>>
    ELSE UpdateLoop([prios EXCEPT ![Head(idxs)] = F32(Head(ps))],
                    Max(mx, Head(ps)), Tail(idxs), Tail(ps))

UpdatePriorities ==
    /\ prioritized
    /\ \E m \in 1..MaxUpdates :
         \E idxs \in [1..m -> 0..(capacity - 1)], ps \in [1..m -> PriorityInputs] :
            LET r == UpdateLoop(priorities, max_priority, idxs, ps)
            IN  /\ priorities' = r[1]
                /\ max_priority' = r[2]
    /\ updated' = TRUE
    /\ ret' = [NoRet EXCEPT !.op = "update_priorities"]
    /\ UNCHANGED <<capacity, prioritized, buffer, position, alpha, beta, adds>>
    /\ UNCHANGED notStoreVars

----------------------------------------------------------------------------
(* Part I.  Properties of the experience stores *)

Min(a, b) == IF a < b THEN a ELSE b

Occupied == 0..(Len(buffer) - 1)

\* the 0-based index of the latest of n add calls that is congruent to i mod cap
LatestAdd(i, n, cap) ==
    CHOOSE j \in 0..(n - 1) :
        /\ j % cap = i
        /\ \A l \in 0..(n - 1) : l % cap = i => l <= j

\* C1: ring-overwrite law.  After n add calls on a store of capacity C the
\* length is min(n, C), the write cursor is n mod C, and slot i holds the most
\* recently added record whose 0-based add index is congruent to i mod C.
C1_RingOverwriteLaw ==
    /\ Len(buffer) = Min(adds, capacity)
    /\ position = adds % capacity
    /\ \A i \in Occupied : buffer[i + 1].id = LatestAdd(i, adds, capacity)

\* C1 witness: capacity+1 adds on a store of capacity >= 2; slot 0 holds the
\* (capacity+1)-th record and slot 1 the second one.
C1_Witness ==
    /\ ~prioritized
    /\ capacity >= 2
    /\ adds = capacity + 1
    /\ Len(buffer) = capacity
    /\ buffer[1].id = capacity
    /\ buffer[2].id = 1

\* C2 (as claimed): right after every add on a prioritized store, the priority
\* of the slot that now holds the new record equals the running max priority
\* at the time of the call.
C2_NewRecordGetsMaxPriority ==
    (prioritized /\ ret.op = "add") => priorities[ret.slot] = ret.maxAtCall

\* C3 (as claimed): after add calls only (no update_priorities), every occupied
\* slot of a prioritized store has a strictly positive priority, and sample(k)
\* with 1 <= k <= stored count does not fail.
C3_StoredRecordsAreSamplable ==
    (prioritized /\ ~updated) =>
        /\ \A i \in Occupied : priorities[i] > 0
        /\ (ret.op = "sample" /\ ret.k <= Len(buffer)) => ret.ok

\* C4 (as claimed): prioritized sample(k) with k <= stored count returns
\* exactly k records from occupied slots, all weights in (0,1], at least one
\* weight equal to 1, and the probabilities sum to 1; with stored count < k it
\* returns every stored record once, each with weight 1.
C4_PrioritizedSampleResult ==
    (prioritized /\ ret.op = "sample") =>
        IF ret.k <= Len(buffer)
        THEN /\ ret.ok
             /\ Len(ret.records) = ret.k
             /\ \A j \in 1..ret.k :
                    /\ ret.indices[j] \in Occupied
                    /\ ret.records[j].id = buffer[ret.indices[j] + 1].id
                    /\ ret.records[j].weight = ret.weights[j]
                    /\ RLt(RZero, ret.weights[j])
                    /\ RLeq(ret.weights[j], ROne)
             /\ \E j \in 1..ret.k : ret.weights[j] = ROne
             /\ Len(ret.probs) = Len(buffer)
             /\ RSum(ret.probs) = ROne
        ELSE /\ ret.ok
             /\ Len(ret.records) = Len(buffer)
             /\ \A i \in Occupied :
                    /\ ret.records[i + 1].id = buffer[i + 1].id
                    /\ ret.records[i + 1].weight = ROne

\* C5 (as claimed): the running max priority never decreases and is greater
\* than or equal to the priority of every slot.
C5_MaxPriorityDominates ==
    [][/\ max_priority' >= max_priority
       /\ \A i \in DOMAIN priorities' : priorities'[i] <= max_priority']_vars

\* C5 (amended): the running max priority never decreases, and no slot's
\* priority exceeds the running max as the float32 array would store it.
C5_MaxPriorityDominatesRounded ==
    [][/\ max_priority' >= max_priority
       /\ \A i \in DOMAIN priorities' : priorities'[i] <= F32(max_priority')]_vars

\* C5 witness: update_priorities has raised the running max to a value that
\* is no float32, and the slot it wrote holds that value rounded up.
C5_Witness ==
    /\ prioritized
    /\ updated
    /\ max_priority > Float32Step
    /\ \E i \in DOMAIN priorities :
          /\ priorities[i] = F32(max_priority)
          /\ priorities[i] > max_priority

\* C6 (as claimed): every slot priority is >= 0 in every reachable state.
C6_PrioritiesNonNegative ==
    \A i \in DOMAIN priorities : priorities[i] >= 0

\* C7: plain sample(batch_size) returns all stored records, each once, when
\* fewer than batch_size are stored, and otherwise exactly batch_size records
\* from pairwise distinct slots.
C7_PlainSampleResult ==
    (~prioritized /\ ret.op = "sample") =>
        /\ ret.ok
        /\ \A j \in DOMAIN ret.indices :
              /\ ret.indices[j] \in Occupied
              /\ ret.records[j] = buffer[ret.indices[j] + 1]
        /\ IF Len(buffer) < ret.k
           THEN ret.records = buffer
           ELSE /\ Len(ret.records) = ret.k
                /\ \A i, j \in 1..ret.k : i # j => ret.indices[i] # ret.indices[j]

\* C7 witness: a plain sample of 2 records from a store holding at least 2.
C7_Witness ==
    /\ ~prioritized
    /\ ret.op = "sample"
    /\ ret.k = 2
    /\ Len(buffer) >= 2
    /\ Len(ret.records) = 2

\* C8: sample leaves length, cursor, slot-to-record assignment, priorities and
\* running max priority unchanged; it may only attach a weight to a stored
\* record, and the plain variant changes no record at all.
C8_SampleFrame ==
    [][ret'.op = "sample" =>
          /\ Len(buffer') = Len(buffer)
          /\ position' = position
          /\ priorities' = priorities
          /\ max_priority' = max_priority
          /\ capacity' = capacity
          /\ \A i \in DOMAIN buffer : buffer'[i].id = buffer[i].id
          /\ ~prioritized => buffer' = buffer]_vars

\* C8 witness: a prioritized sample of two different slots has attached their
\* weights, one of them below 1.
C8_Witness ==
    /\ prioritized
    /\ ret.op = "sample"
    /\ ret.ok
    /\ ret.k = 2
    /\ Len(buffer) >= 2
    /\ ret.indices[1] # ret.indices[2]
    /\ buffer[ret.indices[1] + 1].weight = ret.weights[1]
    /\ \E j \in 1..2 : RLt(ret.weights[j], ROne)

----------------------------------------------------------------------------

----------------------------------------------------------------------------
(* Part II.  MultiAgentCoordinator *)

Protocols == {"modbus", "s7comm"}

\* config.get('concurrent_threads', 4)
DefaultConcurrentThreads == 4

\* What the environment reports for one protocol, as far as the coordinator's
\* code can tell observations apart:
\*   absent   no key for the protocol
\*   full     an observation for every field the protocol's AgentArray declares
\*   partial  observations for some declared fields, at least one missing
\*   nofield  a key for the protocol, but no declared field under it
ObsKinds == {"absent", "full", "partial", "nofield"}

\* the observation maps Environment.reset / Environment.step can return (for a
\* protocol without an agent array only the key's presence is ever read)
ObsMaps ==
    {o \in [Protocols -> ObsKinds] :
        \A p \in Protocols \ agent_arrays : o[p] \in {"absent", "full"}}

Keys(o) == {p \in Protocols : o[p] # "absent"}

NoThreads == [p \in Protocols |-> "none"]
NoObs == [p \in Protocols |-> "absent"]
NoActions == [p \in Protocols |-> "absent"]

\* what info can say about vulnerabilities: <<>> when it has no
\* 'vulnerabilities_found' key, <<n>> when the key holds a list of n entries
InfoReports == {<<>>} \cup {<<n>> : n \in 0..MaxVulns}

\* the entries "if 'vulnerabilities_found' in info: ....extend(...)" appends
Reported(i) == IF i = <<>> THEN 0 ELSE i[1]

\* coordination_stats as __init__ builds it; protocol_coverage maps a protocol
\* to the length of its performance series, and has no key at first
NoStats ==
    [messages_processed |-> 0,
     vulnerabilities_found |-> 0,
     protocol_coverage |-> [p \in {} |-> 0]]

\* a thread that was started and whose target has not returned
Alive == {"started", "computed"}

\* MultiAgentCoordinator.__init__, before coordinate_training is entered
CoordInit ==
    /\ agent_arrays \in (SUBSET Protocols) \ {{}}
    /\ cpc = "episode"
    /\ episode = 0
    /\ step_count = 0
    /\ observations = NoObs
    /\ next_observations = NoObs
    /\ done = FALSE
    /\ actions = NoActions
    /\ pending = {}
    /\ threads = <<>>
    /\ joined = 0
    /\ selT = NoThreads
    /\ updT = NoThreads
    /\ noticed = {}
    /\ info = <<>>
    /\ vulnerabilities_found = 0
    /\ coordination_stats = NoStats
    /\ hist = [steps |-> 0, vulns |-> 0]
    /\ reports = {<<>>}
    /\ max_workers = DefaultConcurrentThreads

\* a coordinator of an agent array per protocol, configured with
\* concurrent_threads 1 or not at all
CoordBoundInit ==
    /\ agent_arrays = Protocols
    /\ cpc = "episode"
    /\ episode = 0
    /\ step_count = 0
    /\ observations = NoObs
    /\ next_observations = NoObs
    /\ done = FALSE
    /\ actions = NoActions
    /\ pending = {}
    /\ threads = <<>>
    /\ joined = 0
    /\ selT = NoThreads
    /\ updT = NoThreads
    /\ noticed = {}
    /\ info = <<>>
    /\ vulnerabilities_found = 0
    /\ coordination_stats = NoStats
    /\ hist = [steps |-> 0, vulns |-> 0]
    /\ reports = {<<>>}
    /\ max_workers \in {1, DefaultConcurrentThreads}

\* the same for a coordinator of one agent array, with an environment that
\* reports vulnerabilities
CoordStatsInit ==
    /\ agent_arrays \in {{p} : p \in Protocols}
    /\ cpc = "episode"
    /\ episode = 0
    /\ step_count = 0
    /\ observations = NoObs
    /\ next_observations = NoObs
    /\ done = FALSE
    /\ actions = NoActions
    /\ pending = {}
    /\ threads = <<>>
    /\ joined = 0
    /\ selT = NoThreads
    /\ updT = NoThreads
    /\ noticed = {}
    /\ info = <<>>
    /\ vulnerabilities_found = 0
    /\ coordination_stats = NoStats
    /\ hist = [steps |-> 0, vulns |-> 0]
    /\ reports = InfoReports
    /\ max_workers = DefaultConcurrentThreads

\* the coordinator while the store of Part I is exercised
CoordIdle ==
    /\ agent_arrays = {}
    /\ cpc = "idle"
    /\ episode = 0
    /\ step_count = 0
    /\ observations = NoObs
    /\ next_observations = NoObs
    /\ done = FALSE
    /\ actions = NoActions
    /\ pending = {}
    /\ threads = <<>>
    /\ joined = 0
    /\ selT = NoThreads
    /\ updT = NoThreads
    /\ noticed = {}
    /\ info = <<>>
    /\ vulnerabilities_found = 0
    /\ coordination_stats = NoStats
    /\ hist = [steps |-> 0, vulns |-> 0]
    /\ reports = {<<>>}
    /\ max_workers = DefaultConcurrentThreads

\* the store while the coordinator of Part II is exercised
StoreIdle ==
    /\ capacity = 1
    /\ prioritized = FALSE
    /\ buffer = <<>>
    /\ position = 0
    /\ priorities = [i \in 0..0 |-> 0]
    /\ max_priority = Float32Step
    /\ alpha = 0
    /\ beta = 0
    /\ adds = 0
    /\ updated = FALSE
    /\ ret = NoRet

\* AgentArray.select_actions(obs[protocol]) raises KeyError when a declared
\* field has no observation
SelectActionsRaises(kind) == kind \in {"partial", "nofield"}

\* the keys of the experience dict update_agents_for_protocol builds
CoordExperienceKeys ==
    {"observations", "actions", "reward", "next_observations",
     "global_observation", "global_next_observation"}

\* the keys of an experience ProtocolAgent.update_policy reads
UpdatePolicyReads == {"observations", "actions", "global_observation", "global_actions"}

\* AgentArray.update_policies([experience], reward) calls update_policy for
\* every agent whose field is observed; update_policy raises KeyError when the
\* field has no action (act is the protocol's entry of the actions dict, absent
\* when its select worker failed) or the experience lacks a key it reads
UpdatePoliciesRaises(kind, act) ==
    /\ kind \in {"full", "partial"}
    /\ \/ act = "absent"
       \/ ~(UpdatePolicyReads \subseteq CoordExperienceKeys)

\* coordinate_training: for episode in range(num_episodes); then
\* _run_coordinated_episode: observations = environment.reset(), and the first
\* _parallel_action_selection(observations) is entered
EpisodeStart ==
    /\ cpc = "episode"
    /\ episode < NumEpisodes
    /\ \E o \in ObsMaps :
          /\ observations' = o
          /\ pending' = Keys(o)
    /\ step_count' = 0
    /\ actions' = NoActions
    /\ threads' = <<>>
    /\ joined' = 0
    /\ selT' = NoThreads
    /\ updT' = NoThreads
    /\ cpc' = "select_spawn"
    /\ UNCHANGED <<agent_arrays, episode, next_observations, done>>
    /\ noticed' = {}
    /\ UNCHANGED info
    /\ vulnerabilities_found' = 0
    /\ UNCHANGED coordination_stats
    /\ UNCHANGED hist
    /\ UNCHANGED <<reports, max_workers>>
    /\ UNCHANGED notCoordVars

\* a loop that comes back to a key it has visited
KeysLeftRevisiting(keys, p) == keys

\* "for protocol in d.keys()": the keys the loop has yet to visit after p
KeysLeft(keys, p) == keys \ {p}

\* _parallel_action_selection: one iteration of "for protocol in
\* observations.keys()": a thread is created and started if the protocol has
\* an agent array
SelectSpawn ==
    /\ cpc = "select_spawn"
    /\ pending # {}
    /\ \E p \in pending :
          /\ pending' = KeysLeft(pending, p)
          /\ IF p \in agent_arrays
             THEN /\ threads' = Append(threads, p)
                  /\ selT' = [selT EXCEPT ![p] = "started"]
             ELSE UNCHANGED <<threads, selT>>
    /\ UNCHANGED <<agent_arrays, cpc, episode, step_count, observations,
                   next_observations, done, actions, joined, updT>>
    /\ UNCHANGED noticed
    /\ UNCHANGED info
    /\ UNCHANGED vulnerabilities_found
    /\ UNCHANGED coordination_stats
    /\ UNCHANGED hist
    /\ UNCHANGED <<reports, max_workers>>
    /\ UNCHANGED notCoordVars

\* the spawn loop is over; the join loop begins
SelectSpawned ==
    /\ cpc = "select_spawn"
    /\ pending = {}
    /\ cpc' = "select_join"
    /\ joined' = 0
    /\ UNCHANGED <<agent_arrays, episode, step_count, observations,
                   next_observations, done, actions, pending, threads, selT, updT>>
    /\ UNCHANGED noticed
    /\ UNCHANGED info
    /\ UNCHANGED vulnerabilities_found
    /\ UNCHANGED coordination_stats
    /\ UNCHANGED hist
    /\ UNCHANGED <<reports, max_workers>>
    /\ UNCHANGED notCoordVars

\* an except clause that empties the dict the workers share
ActionsAfterFailureCleared(acts, p) == [q \in Protocols |-> "absent"]

\* except Exception as e: self.logger.error(...): the actions dict is as the
\* workers have left it so far
ActionsAfterFailure(acts, p) == acts

\* select_actions_for_protocol in its thread: the guard, then select_actions;
\* an exception is caught and logged, and the thread ends
SelectWorkerRun(p) ==
    /\ selT[p] = "started"
    /\ IF p \in agent_arrays /\ observations[p] # "absent"
       THEN IF SelectActionsRaises(observations[p])
            THEN /\ selT' = [selT EXCEPT ![p] = "failed"]
                 /\ actions' = ActionsAfterFailure(actions, p)
            ELSE /\ selT' = [selT EXCEPT ![p] = "computed"]
                 /\ UNCHANGED actions
       ELSE /\ selT' = [selT EXCEPT ![p] = "done"]
            /\ UNCHANGED actions
    /\ UNCHANGED <<agent_arrays, cpc, episode, step_count, observations,
                   next_observations, done, pending, threads, joined, updT>>
    /\ UNCHANGED noticed
    /\ UNCHANGED info
    /\ UNCHANGED vulnerabilities_found
    /\ UNCHANGED coordination_stats
    /\ UNCHANGED hist
    /\ UNCHANGED <<reports, max_workers>>
    /\ UNCHANGED notCoordVars

\* a worker that rebinds the dict to one holding its own entry only
ActionsAfterStoreAlone(acts, p) == [q \in Protocols |-> IF q = p THEN p ELSE "absent"]

\* actions[protocol] = protocol_actions: one item assignment on the dict the
\* workers of the step share; the value is what this protocol's own
\* AgentArray.select_actions returned
ActionsAfterStore(acts, p) == [acts EXCEPT ![p] = p]

\* select_actions_for_protocol: actions[protocol] = protocol_actions
SelectWorkerStore(p) ==
    /\ selT[p] = "computed"
    /\ actions' = ActionsAfterStore(actions, p)
    /\ selT' = [selT EXCEPT ![p] = "done"]
    /\ UNCHANGED <<agent_arrays, cpc, episode, step_count, observations,
                   next_observations, done, pending, threads, joined, updT>>
    /\ UNCHANGED noticed
    /\ UNCHANGED info
    /\ UNCHANGED vulnerabilities_found
    /\ UNCHANGED coordination_stats
    /\ UNCHANGED hist
    /\ UNCHANGED <<reports, max_workers>>
    /\ UNCHANGED notCoordVars

\* thread.join() returns once the thread has terminated
JoinReturnsAtOnce(state) == TRUE

JoinReturns(state) == state \notin Alive

\* what a join tells the coordinating thread about the worker p it joined:
\* thread.join() returns None whatever way the target ended, the worker's
\* except clause has consumed the exception (logger.error only), and the
\* coordinating thread reads no other outcome of the worker
JoinYields(p, state) == {}

\* _parallel_action_selection: one iteration of "for thread in threads:
\* thread.join()"
SelectJoin ==
    /\ cpc = "select_join"
    /\ joined < Len(threads)
    /\ JoinReturns(selT[threads[joined + 1]])
    /\ joined' = joined + 1
    /\ UNCHANGED <<agent_arrays, cpc, episode, step_count, observations,
                   next_observations, done, actions, pending, threads, selT, updT>>
    /\ noticed' = noticed \cup JoinYields(threads[joined + 1], selT[threads[joined + 1]])
    /\ UNCHANGED info
    /\ UNCHANGED vulnerabilities_found
    /\ UNCHANGED coordination_stats
    /\ UNCHANGED hist
    /\ UNCHANGED <<reports, max_workers>>
    /\ UNCHANGED notCoordVars

\* _parallel_action_selection returns actions
SelectJoined ==
    /\ cpc = "select_join"
    /\ joined = Len(threads)
    /\ cpc' = "env_step"
    /\ UNCHANGED <<agent_arrays, episode, step_count, observations,
                   next_observations, done, actions, pending, threads, joined,
                   selT, updT>>
    /\ UNCHANGED noticed
    /\ UNCHANGED info
    /\ UNCHANGED vulnerabilities_found
    /\ UNCHANGED coordination_stats
    /\ UNCHANGED hist
    /\ UNCHANGED <<reports, max_workers>>
    /\ UNCHANGED notCoordVars

\* next_observations, reward, done, info = environment.step(actions); then
\* _parallel_agent_update is entered
EnvStep ==
    /\ cpc = "env_step"
    /\ next_observations' \in ObsMaps
    /\ done' \in BOOLEAN
    /\ pending' = agent_arrays
    /\ threads' = <<>>
    /\ joined' = 0
    /\ updT' = NoThreads
    /\ cpc' = "update_spawn"
    /\ UNCHANGED <<agent_arrays, episode, step_count, observations, actions, selT>>
    /\ noticed' = {}
    /\ info' \in reports
    /\ UNCHANGED vulnerabilities_found
    /\ UNCHANGED coordination_stats
    /\ \E i \in {info'} :
          hist' = [steps |-> hist.steps + 1,
                   vulns |-> hist.vulns + Reported(i)]
    /\ UNCHANGED <<reports, max_workers>>
    /\ UNCHANGED notCoordVars

\* _parallel_agent_update: one iteration of "for protocol in
\* self.agent_arrays.keys()": a thread is created and started
UpdateSpawn ==
    /\ cpc = "update_spawn"
    /\ pending # {}
    /\ \E p \in pending :
          /\ pending' = KeysLeft(pending, p)
          /\ threads' = Append(threads, p)
          /\ updT' = [updT EXCEPT ![p] = "started"]
    /\ UNCHANGED <<agent_arrays, cpc, episode, step_count, observations,
                   next_observations, done, actions, joined, selT>>
    /\ UNCHANGED noticed
    /\ UNCHANGED info
    /\ UNCHANGED vulnerabilities_found
    /\ UNCHANGED coordination_stats
    /\ UNCHANGED hist
    /\ UNCHANGED <<reports, max_workers>>
    /\ UNCHANGED notCoordVars

UpdateSpawned ==
    /\ cpc = "update_spawn"
    /\ pending = {}
    /\ cpc' = "update_join"
    /\ joined' = 0
    /\ UNCHANGED <<agent_arrays, episode, step_count, observations,
                   next_observations, done, actions, pending, threads, selT, updT>>
    /\ UNCHANGED noticed
    /\ UNCHANGED info
    /\ UNCHANGED vulnerabilities_found
    /\ UNCHANGED coordination_stats
    /\ UNCHANGED hist
    /\ UNCHANGED <<reports, max_workers>>
    /\ UNCHANGED notCoordVars

\* update_agents_for_protocol in its thread: the guard, the experience dict,
\* update_policies; an exception is caught and logged, and the thread ends
UpdateWorkerRun(p) ==
    /\ updT[p] = "started"
    /\ IF /\ p \in agent_arrays
          /\ observations[p] # "absent"
          /\ next_observations[p] # "absent"
       THEN IF UpdatePoliciesRaises(observations[p], actions[p])
            THEN updT' = [updT EXCEPT ![p] = "failed"]
            ELSE updT' = [updT EXCEPT ![p] = "updated"]
       ELSE updT' = [updT EXCEPT ![p] = "done"]
    /\ UNCHANGED <<agent_arrays, cpc, episode, step_count, observations,
                   next_observations, done, actions, pending, threads, joined, selT>>
    /\ UNCHANGED noticed
    /\ UNCHANGED info
    /\ UNCHANGED vulnerabilities_found
    /\ UNCHANGED coordination_stats
    /\ UNCHANGED hist
    /\ UNCHANGED <<reports, max_workers>>
    /\ UNCHANGED notCoordVars

\* _parallel_agent_update: one iteration of the join loop
UpdateJoin ==
    /\ cpc = "update_join"
    /\ joined < Len(threads)
    /\ JoinReturns(updT[threads[joined + 1]])
    /\ joined' = joined + 1
    /\ UNCHANGED <<agent_arrays, cpc, episode, step_count, observations,
                   next_observations, done, actions, pending, threads, selT, updT>>
    /\ noticed' = noticed \cup JoinYields(threads[joined + 1], updT[threads[joined + 1]])
    /\ UNCHANGED info
    /\ UNCHANGED vulnerabilities_found
    /\ UNCHANGED coordination_stats
    /\ UNCHANGED hist
    /\ UNCHANGED <<reports, max_workers>>
    /\ UNCHANGED notCoordVars

\* _parallel_agent_update returns; step_count += 1; the vulnerabilities of
\* info are appended; observations = next_observations; then either break, or
\* the next iteration enters _parallel_action_selection with a new actions
\* dict and a new threads list.  next_observations, done and info are not
\* read again before environment.step assigns them anew: they are cleared.
UpdateJoined ==
    /\ cpc = "update_join"
    /\ joined = Len(threads)
    /\ step_count' = step_count + 1
    /\ observations' = next_observations
    /\ IF done \/ step_count' >= StepLimit
       THEN /\ cpc' = "return"
            /\ UNCHANGED <<actions, pending, threads, joined, selT>>
       ELSE /\ cpc' = "select_spawn"
            /\ actions' = NoActions
            /\ pending' = Keys(next_observations)
            /\ threads' = <<>>
            /\ joined' = 0
            /\ selT' = NoThreads
    /\ next_observations' = NoObs
    /\ done' = FALSE
    /\ info' = <<>>
    /\ UNCHANGED <<agent_arrays, episode, updT>>
    /\ noticed' = {}
    /\ vulnerabilities_found' = vulnerabilities_found + Reported(info)
    /\ UNCHANGED coordination_stats
    /\ UNCHANGED hist
    /\ UNCHANGED <<reports, max_workers>>
    /\ UNCHANGED notCoordVars

\* the dict _run_coordinated_episode returns, as far as it is read:
\* protocol_performance has one entry per agent array
EpisodeResult ==
    [steps |-> step_count,
     vulnerabilities_found |-> vulnerabilities_found,
     protocol_performance |-> agent_arrays]

\* an update that counts episodes where it should add up steps
StatsAfterEpisodeCountingEpisodes(stats, result) ==
    [messages_processed |-> stats.messages_processed + 1,
     vulnerabilities_found |-> stats.vulnerabilities_found + result.vulnerabilities_found,
     protocol_coverage |->
        [p \in DOMAIN stats.protocol_coverage \cup result.protocol_performance |->
            IF p \in result.protocol_performance
            THEN (IF p \in DOMAIN stats.protocol_coverage
                  THEN stats.protocol_coverage[p] ELSE 0) + 1
            ELSE stats.protocol_coverage[p]]]

\* _update_coordination_stats(episode_result)
StatsAfterEpisode(stats, result) ==
    [messages_processed |-> stats.messages_processed + result.steps,
     vulnerabilities_found |-> stats.vulnerabilities_found + result.vulnerabilities_found,
     protocol_coverage |->
        [p \in DOMAIN stats.protocol_coverage \cup result.protocol_performance |->
            IF p \in result.protocol_performance
            THEN (IF p \in DOMAIN stats.protocol_coverage
                  THEN stats.protocol_coverage[p] ELSE 0) + 1
            ELSE stats.protocol_coverage[p]]]

\* _run_coordinated_episode returns the episode result; coordinate_training
\* records it and goes on to the next episode
EpisodeReturn ==
    /\ cpc = "return"
    /\ episode' = episode + 1
    /\ cpc' = "episode"
    /\ UNCHANGED <<agent_arrays, step_count, observations, next_observations,
                   done, actions, pending, threads, joined, selT, updT>>
    /\ UNCHANGED noticed
    /\ UNCHANGED info
    /\ UNCHANGED vulnerabilities_found
    /\ coordination_stats' = StatsAfterEpisode(coordination_stats, EpisodeResult)
    /\ UNCHANGED hist
    /\ UNCHANGED <<reports, max_workers>>
    /\ UNCHANGED notCoordVars

CoordNext ==
    \/ EpisodeStart
    \/ SelectSpawn
    \/ SelectSpawned
    \/ \E p \in Protocols : SelectWorkerRun(p)
    \/ \E p \in Protocols : SelectWorkerStore(p)
    \/ SelectJoin
    \/ SelectJoined
    \/ EnvStep
    \/ UpdateSpawn
    \/ UpdateSpawned
    \/ \E p \in Protocols : UpdateWorkerRun(p)
    \/ UpdateJoin
    \/ UpdateJoined
    \/ EpisodeReturn

----------------------------------------------------------------------------
(* Part II.  Properties of the coordinator *)

SelectAlive == {p \in Protocols : selT[p] \in Alive}
UpdateAlive == {p \in Protocols : updT[p] \in Alive}

\* C9: select barrier.  environment.step is invoked only after every select
\* worker started for the step has terminated: while the coordinating thread
\* is at the call, or anywhere between it and the next action-selection phase,
\* no select worker is running.
C9_SelectBarrier ==
    cpc \in {"env_step", "update_spawn", "update_join", "return", "episode"}
        => SelectAlive = {}

\* C9 witness: the coordinating thread is about to call environment.step
\* after two select workers ran, one storing its actions and one failing.
C9_Witness ==
    /\ cpc = "env_step"
    /\ Len(threads) = 2
    /\ \E p, q \in Protocols : selT[p] = "done" /\ actions[p] = p /\ selT[q] = "failed"

\* C10: update barrier.  Every update worker of a step has terminated before
\* a select worker of the next step starts and before the episode result is
\* returned; select workers and update workers are never alive together.
C10_UpdateBarrier ==
    /\ cpc \in {"select_spawn", "select_join", "env_step", "return", "episode"}
          => UpdateAlive = {}
    /\ SelectAlive = {} \/ UpdateAlive = {}

\* C10 witness: a second step's select worker is running after the first
\* step's update workers, two of them, have terminated.
C10_Witness ==
    /\ step_count = 1
    /\ cpc \in {"select_spawn", "select_join"}
    /\ SelectAlive # {}
    /\ \A p \in agent_arrays : updT[p] \in {"done", "updated", "failed"}
    /\ Cardinality(agent_arrays) = 2

\* a select worker of the current step ended in its except branch
SelectFailed == {p \in Protocols : selT[p] = "failed"}

\* an update worker of the current step ended in its except branch
UpdateFailed == {p \in Protocols : updT[p] = "failed"}

\* C11: merged action map.  When no select worker failed, the actions dict
\* handed to environment.step has an entry for exactly the protocols that have
\* both an agent array and an observation in this step, and each entry is the
\* one produced by that protocol's own AgentArray; no entry is lost or
\* overwritten by another worker.
C11_MergedActionMap ==
    (cpc = "env_step" /\ SelectFailed = {})
        => \A p \in Protocols :
              actions[p] = IF p \in agent_arrays /\ observations[p] # "absent"
                           THEN p
                           ELSE "absent"

\* C11 witness: environment.step is about to be called with the entries of
\* two protocols, stored by two workers, none of which failed.
C11_Witness ==
    /\ cpc = "env_step"
    /\ SelectFailed = {}
    /\ Len(threads) = 2
    /\ \A p \in Protocols : actions[p] = p /\ selT[p] = "done"

\* C12: worker failures are surfaced.  Once the coordinating thread has
\* joined the workers of a phase, it has learned of every worker of the phase
\* that ended with an exception; it does not go on unaware of a failure.
C12_WorkerFailureSurfaced ==
    /\ cpc = "env_step" => SelectFailed \subseteq noticed
    /\ (cpc = "update_join" /\ joined = Len(threads)) => UpdateFailed \subseteq noticed

\* C13: coordination statistics.  coordination_stats is written by the
\* coordinating thread only, once per completed episode and never by a
\* worker; whenever the coordinating thread is between two episodes, after N
\* of them, messages_processed is the number of environment steps made,
\* vulnerabilities_found the number of vulnerabilities the environment
\* reported, and every protocol with an agent array has a performance series
\* of N entries.
C13_StatsSingleWriter ==
    [][/\ coordination_stats' # coordination_stats
            => /\ cpc = "return" /\ cpc' = "episode"
               /\ episode' = episode + 1
               /\ selT' = selT /\ updT' = updT
               /\ SelectAlive = {} /\ UpdateAlive = {}
       /\ cpc' = "episode"
            => /\ coordination_stats'.messages_processed = hist'.steps
               /\ coordination_stats'.vulnerabilities_found = hist'.vulns
               /\ DOMAIN coordination_stats'.protocol_coverage = agent_arrays'
               /\ \A p \in agent_arrays' :
                     coordination_stats'.protocol_coverage[p] = episode'
      ]_vars

\* C13 witness: all episodes are completed, of StepLimit steps each, with
\* vulnerabilities reported and workers run, and the statistics are recorded.
C13_Witness ==
    /\ cpc = "episode"
    /\ episode = NumEpisodes
    /\ \E p \in agent_arrays : selT[p] = "done" /\ updT[p] = "failed"
    /\ coordination_stats.messages_processed = StepLimit * NumEpisodes
    /\ coordination_stats.vulnerabilities_found > 1
    /\ \A p \in agent_arrays : coordination_stats.protocol_coverage[p] = NumEpisodes

\* C14: the update worker's record is complete.  For a protocol with an
\* agent array, every declared field observed and acted on, and a next
\* observation, the update worker's update_policies call runs to completion:
\* the record it passes holds every item ProtocolAgent.update_policy reads.
C14_UpdateRunsToCompletion ==
    \A p \in agent_arrays :
        (/\ cpc \in {"update_spawn", "update_join"}
         /\ observations[p] = "full"
         /\ next_observations[p] # "absent"
         /\ actions[p] = p
         /\ updT[p] \notin {"none", "started"})
            => updT[p] = "updated"

\* the threads of the running phase that are alive and whose target works
\* on the agent array of protocol p: thread i was started with
\* args=(threads[i], ...) and its target reads self.agent_arrays[protocol]
\* for that protocol only
WorkersOn(p) ==
    {i \in DOMAIN threads :
        /\ threads[i] = p
        /\ \/ cpc \in {"select_spawn", "select_join"} /\ selT[p] \in Alive
           \/ cpc \in {"update_spawn", "update_join"} /\ updT[p] \in Alive}

\* C34: one worker per agent array.  The threads of a phase are started for
\* pairwise different protocols, each for a protocol with an agent array; a
\* worker is alive only in the phase that started it; so at any time at most
\* one live worker works on a given agent array (its agents, their
\* parameters and optimizers), the arrays being one object per protocol.
C34_OneWorkerPerArray ==
    /\ Injective(threads)
    /\ \A i \in DOMAIN threads : threads[i] \in agent_arrays
    /\ \A p \in Protocols :
          /\ Cardinality(WorkersOn(p)) <= 1
          /\ selT[p] \in Alive
                => /\ cpc \in {"select_spawn", "select_join"}
                   /\ \E i \in DOMAIN threads : threads[i] = p
          /\ updT[p] \in Alive
                => /\ cpc \in {"update_spawn", "update_join"}
                   /\ \E i \in DOMAIN threads : threads[i] = p
          /\ ~(selT[p] \in Alive /\ updT[p] \in Alive)

\* C34 witness: in the update phase two workers are alive at once, one on
\* each of two agent arrays.
C34_Witness ==
    /\ cpc = "update_join"
    /\ Len(threads) = 2
    /\ \A p \in Protocols : Cardinality(WorkersOn(p)) = 1

\* C35: worker bound.  The worker threads of a phase that are alive at one
\* time are never more than max_workers, the configured concurrent_threads.
C35_WorkersWithinBound ==
    Cardinality(SelectAlive \cup UpdateAlive) <= max_workers

\* the coordinating thread is in _parallel_action_selection
InSelection == cpc \in {"select_spawn", "select_join"}

\* C33: a failed select worker.  When a protocol's select worker has raised,
\* _parallel_action_selection still returns, with every worker joined, and
\* environment.step is still called; the actions dict it is called with has
\* no entry for the failed protocol and, for every other protocol with an
\* agent array and an observation, the entry that protocol's own worker
\* stored; and during the phase an entry of the dict changes only when the
\* protocol's own worker stores it.
C33_SelectFailureIsolated ==
    /\ [](cpc = "env_step"
            => /\ joined = Len(threads)
               /\ SelectAlive = {}
               /\ \A p \in Protocols :
                     actions[p] = IF /\ p \in agent_arrays
                                     /\ observations[p] # "absent"
                                     /\ p \notin SelectFailed
                                  THEN p ELSE "absent")
    /\ [][\A p \in Protocols :
             (InSelection /\ actions'[p] # actions[p])
                => /\ selT[p] = "computed" /\ selT'[p] = "done"
                   /\ actions'[p] = p
                   /\ \A q \in Protocols \ {p} : actions'[q] = actions[q]]_vars
    /\ ((SelectFailed # {} /\ (InSelection \/ cpc = "env_step"))
          ~> (SelectFailed # {} /\ cpc = "update_spawn"))

\* C33 witness: environment.step has been called after the select worker of
\* one protocol failed and the worker of the other stored its actions: the
\* dict holds the latter's entry and none of the former.
C33_Witness ==
    /\ cpc = "update_spawn"
    /\ hist.steps = 1
    /\ \E p, q \in Protocols :
          /\ selT[p] = "failed" /\ actions[p] = "absent"
          /\ selT[q] = "done" /\ actions[q] = q

----------------------------------------------------------------------------
(* Part III.  OmniFuzzTrainer *)

\* the observation maps the environment can return to the trainer, which
\* treats "nofield" as it treats "partial"
TrainObsMaps ==
    {o \in [Protocols -> ObsKinds \ {"nofield"}] :
        /\ \A p \in tr_agent_arrays : o[p] \in tr_env.kinds
        /\ \A p \in Protocols \ tr_agent_arrays : o[p] \in tr_env.others}

\* the dimensions of the observation tensor the environment gives for a
\* field: 1 for a vector of state_dim components (the form AgentArray is
\* tested with), 2 for a batch of one such vector
ObsDims == {1, 2}

\* the dimensions of the tensor ProtocolAgent.select_action returns for an
\* observation of obs_dims dimensions: Categorical(probs).sample() has the
\* shape of probs less its last dimension
ActionDimsOf(obs_dims) == obs_dims - 1

\* an empty ExperienceBuffer
NoStore == [buffer |-> <<>>, position |-> 0]

\* the history of an episode that has not begun
NoHist == [resets |-> 0, done_before |-> FALSE, late |-> FALSE]

\* the locals of train and _run_episode before train is entered
TrainLocalsInit ==
    /\ tr_episode = 0
    /\ tr_step_count = 0
    /\ tr_total_reward = 0
    /\ tr_observations = NoObs
    /\ tr_actions = {}
    /\ tr_next_observations = NoObs
    /\ tr_reward = 0
    /\ tr_done = FALSE
    /\ tr_calls = <<>>
    /\ tr_batch = <<>>
    /\ tr_update = <<>>
    /\ tr_hist = NoHist
    /\ episode_rewards = <<>>
    /\ tr_early_stop = FALSE
    /\ tr_summary = <<>>
    /\ tr_exception = "none"

\* OmniFuzzTrainer.__init__, and train(1) entered: a trainer of one
\* protocol's agent array, in an environment of all the protocols
TrainInit ==
    /\ tr_agent_arrays \in {{p} : p \in Protocols}
    /\ tr_buffer_size \in 1..MaxCapacity
    /\ tr_batch_size \in 1..MaxBatch
    /\ tr_num_episodes = 1
    /\ tr_env \in {[kinds |-> {"absent", "full", "partial"},
                     others |-> {"absent", "full"},
                     rewards |-> 0..MaxReward,
                     obs_dims |-> d] : d \in ObsDims}
    /\ tr_pc = "episode"
    /\ experience_buffers = [p \in tr_agent_arrays |-> NoStore]
    /\ TrainLocalsInit

\* OmniFuzzTrainer.__init__, and train(num_episodes) entered: a trainer of
\* one protocol's agent array with stores of one record, in an environment
\* that always observes that protocol and no other
TrainStatsInit ==
    /\ tr_agent_arrays = {"modbus"}
    /\ tr_buffer_size = 1
    /\ tr_batch_size = 1
    /\ tr_num_episodes \in 0..TrainEpisodes
    /\ tr_env \in {[kinds |-> {"full"}, others |-> {"absent"}, rewards |-> {0, 1},
                     obs_dims |-> d] : d \in ObsDims}
    /\ tr_pc = "episode"
    /\ experience_buffers = [p \in tr_agent_arrays |-> NoStore]
    /\ TrainLocalsInit

\* the trainer while another part is exercised
TrainIdle ==
    /\ tr_agent_arrays = {}
    /\ tr_buffer_size = 1
    /\ tr_batch_size = 1
    /\ tr_num_episodes = 0
    /\ tr_env = [kinds |-> {}, others |-> {}, rewards |-> {}, obs_dims |-> 1]
    /\ tr_pc = "idle"
    /\ experience_buffers = [p \in {} |-> NoStore]
    /\ TrainLocalsInit

\* the number of calls of c in a call history
Count(calls, c) == Cardinality({i \in DOMAIN calls : calls[i] = c})

\* an exception leaves train: the frames of train and _run_episode are gone
\* (what the trainer object holds stays)
Raise(callee) ==
    /\ tr_pc' = "raised"
    /\ tr_exception' = callee
    /\ tr_step_count' = 0
    /\ tr_total_reward' = 0
    /\ tr_observations' = NoObs
    /\ tr_actions' = {}
    /\ tr_next_observations' = NoObs
    /\ tr_reward' = 0
    /\ tr_done' = FALSE
    /\ tr_calls' = <<>>
    /\ tr_batch' = <<>>
    /\ tr_update' = <<>>
    /\ tr_hist' = NoHist

\* a trainer that takes a failure of the environment as the end of the episode
OnEnvironmentFailureEndEpisode(callee) ==
    /\ tr_pc' = "return"
    /\ tr_exception' = callee
    /\ tr_step_count' = 1
    /\ UNCHANGED <<tr_total_reward, tr_observations, tr_actions,
                   tr_next_observations, tr_reward, tr_done, tr_calls, tr_batch, tr_update,
                   tr_hist>>

\* environment.reset or environment.step raises: nothing in train or
\* _run_episode catches it
OnEnvironmentFailure(callee) == Raise(callee)

\* the calls _run_episode makes before its loop: environment.reset and
\* reward_calculator.reset_diversity_tracking
EpisodeStartCalls == <<"reset", "reset_diversity_tracking">>

\* a loop that resets the diversity tracking at the head of every later step
StepStartCallsResetting == <<"reset_diversity_tracking">>

\* the calls at the head of a later pass of the loop of _run_episode: none
StepStartCalls == <<>>

\* train: for episode in range(num_episodes); _run_episode: observations =
\* environment.reset(), the locals, reward_calculator.reset_diversity_tracking()
TrainEpisodeStart ==
    /\ tr_pc = "episode"
    /\ ~tr_early_stop
    /\ tr_episode < tr_num_episodes
    /\ \/ /\ tr_observations' \in TrainObsMaps
          /\ tr_total_reward' = 0
          /\ tr_step_count' = 0
          /\ tr_calls' = EpisodeStartCalls
          /\ tr_hist' = [NoHist EXCEPT
                            !.resets = Count(EpisodeStartCalls,
                                             "reset_diversity_tracking")]
          /\ tr_pc' = "select"
          /\ UNCHANGED <<tr_actions, tr_next_observations, tr_reward, tr_done,
                         tr_batch, tr_update, tr_exception>>
       \/ OnEnvironmentFailure("reset")
    /\ UNCHANGED <<tr_agent_arrays, tr_buffer_size, tr_batch_size, tr_num_episodes,
                   tr_env, tr_episode, experience_buffers, episode_rewards,
                   tr_early_stop, tr_summary>>
    /\ UNCHANGED notTrainVars

\* the protocols the selection loop of _run_episode calls select_actions for
Selecting == {p \in tr_agent_arrays : tr_observations[p] # "absent"}

\* _run_episode: actions = {}; for each agent array with an observation,
\* actions[protocol] = agent_array.select_actions(observations[protocol]); an
\* exception of select_actions is not caught and leaves train
TrainSelect ==
    /\ tr_pc = "select"
    /\ IF \E p \in Selecting : SelectActionsRaises(tr_observations[p])
       THEN Raise("select_actions")
       ELSE /\ tr_pc' = "step"
            /\ tr_actions' = Selecting
            /\ tr_calls' = IF Selecting = {} THEN tr_calls
                           ELSE Append(tr_calls, "select_actions")
            /\ tr_hist' = [tr_hist EXCEPT
                              !.late = @ \/ (tr_hist.done_before /\ Selecting # {})]
            /\ UNCHANGED <<tr_step_count, tr_total_reward, tr_observations,
                           tr_next_observations, tr_reward, tr_done, tr_batch, tr_update,
                           tr_exception>>
    /\ UNCHANGED <<tr_agent_arrays, tr_buffer_size, tr_batch_size, tr_num_episodes,
                   tr_env, tr_episode, experience_buffers, episode_rewards,
                   tr_early_stop, tr_summary>>
    /\ UNCHANGED notTrainVars

\* next_observations, reward, done, info = self.environment.step(actions)
TrainEnvStep ==
    /\ tr_pc = "step"
    /\ \/ /\ tr_next_observations' \in TrainObsMaps
          /\ tr_reward' \in tr_env.rewards
          /\ tr_done' \in BOOLEAN
          /\ tr_calls' = Append(tr_calls, "step")
          /\ tr_hist' = [tr_hist EXCEPT !.late = @ \/ tr_hist.done_before]
          /\ tr_pc' = "store"
          /\ UNCHANGED <<tr_step_count, tr_total_reward, tr_observations,
                         tr_actions, tr_batch, tr_update, tr_exception>>
       \/ OnEnvironmentFailure("step")
    /\ UNCHANGED <<tr_agent_arrays, tr_buffer_size, tr_batch_size, tr_num_episodes,
                   tr_env, tr_episode, experience_buffers, episode_rewards,
                   tr_early_stop, tr_summary>>
    /\ UNCHANGED notTrainVars

\* the protocols _store_experiences adds a record for
Storing ==
    {p \in tr_agent_arrays :
        tr_observations[p] # "absent" /\ tr_next_observations[p] # "absent"}

\* the experience dict of _store_experiences, as far as the model follows it:
\* 'reward' is the reward parameter, which _run_episode binds to the reward
\* environment.step returned
Experience(reward) == [reward |-> reward]

\* self.experience_buffers[protocol].add(experience)
StoreAfterAdd(store, rec) ==
    [buffer |-> BufferAfterAdd(store.buffer, store.position, tr_buffer_size, rec),
     position |-> PositionAfterAdd(store.position, tr_buffer_size)]

\* torch.cat([actions[protocol][field] for field in actions[protocol]]) of
\* tensors of dims dimensions raises a RuntimeError for zero-dimensional
\* tensors (they cannot be concatenated)
CatRaises(dims) == dims = 0

\* self._store_experiences(observations, actions, reward, next_observations,
\* done): for each agent array observed before and after the step the global
\* vectors are built and the record is added; the torch.cat over the step's
\* action tensors raises before anything is added.
TrainStore ==
    /\ tr_pc = "store"
    /\ \/ /\ Storing = {} \/ ~CatRaises(ActionDimsOf(tr_env.obs_dims))
          /\ experience_buffers' =
                [p \in tr_agent_arrays |->
                    IF p \in Storing
                    THEN StoreAfterAdd(experience_buffers[p], Experience(tr_reward))
                    ELSE experience_buffers[p]]
          /\ tr_calls' = IF Storing = {} THEN tr_calls ELSE Append(tr_calls, "add")
          /\ tr_hist' = [tr_hist EXCEPT
                            !.late = @ \/ (tr_hist.done_before /\ Storing # {})]
          /\ tr_pc' = "update"
          /\ UNCHANGED <<tr_step_count, tr_total_reward, tr_observations,
                         tr_actions, tr_next_observations, tr_reward, tr_done,
                         tr_batch, tr_update, tr_exception>>
       \/ /\ Storing # {}
          /\ CatRaises(ActionDimsOf(tr_env.obs_dims))
          /\ Raise("_store_experiences")
          /\ UNCHANGED experience_buffers
    /\ UNCHANGED <<tr_agent_arrays, tr_buffer_size, tr_batch_size, tr_num_episodes,
                   tr_env, tr_episode, episode_rewards, tr_early_stop, tr_summary>>
    /\ UNCHANGED notTrainVars

\* an update that is due at the first step of an episode only
UpdateDueAtFirstStep(steps) == steps = 0

\* if step_count % 10 == 0
UpdateDue(steps) == steps % UpdateEvery = 0

\* the protocols _update_agents samples a batch and calls update_policies for
Updating ==
    {p \in tr_agent_arrays : Len(experience_buffers[p].buffer) >= tr_batch_size}

\* buffer.sample(batch_size) for the protocols that are updated (the trainer
\* has one agent array)
Batches ==
    IF Updating = {}
    THEN {<<>>}
    ELSE LET buf == experience_buffers[CHOOSE p \in Updating : TRUE].buffer
         IN  {RecordsAt(buf, idx) : idx \in SampleIndices(Len(buf), tr_batch_size)}

\* an update that takes each record's own reward
AdvantageRewardsOfRecords(batch, global_reward) ==
    [i \in DOMAIN batch |-> {batch[i].reward}]

\* agent_array.update_policies(batch, global_reward): every agent's
\* update_policy computes advantage = global_reward - value for each record
\* it is given; per record, the rewards the advantages are computed from
AdvantageRewards(batch, global_reward) ==
    [i \in DOMAIN batch |-> {global_reward}]

\* if step_count % 10 == 0: self._update_agents(reward).  The shapes of the
\* tensors are not modelled: update_policies raises a RuntimeError when the
\* value network cannot concatenate a record's global observation and global
\* actions.
TrainUpdate ==
    /\ tr_pc = "update"
    /\ \/ /\ tr_calls' = IF UpdateDue(tr_step_count)
                         THEN tr_calls \o <<"_update_agents">>
                                       \o (IF Updating # {}
                                           THEN <<"sample", "update_policies">>
                                           ELSE <<>>)
                         ELSE tr_calls
          /\ tr_batch' \in IF UpdateDue(tr_step_count) THEN Batches ELSE {<<>>}
          /\ tr_update' = AdvantageRewards(tr_batch', tr_reward)
          /\ tr_pc' = "tally"
          /\ UNCHANGED <<tr_step_count, tr_total_reward, tr_observations,
                         tr_actions, tr_next_observations, tr_reward, tr_done,
                         tr_hist, tr_exception>>
       \/ /\ UpdateDue(tr_step_count)
          /\ Updating # {}
          /\ Raise("update_policies")
    /\ UNCHANGED <<tr_agent_arrays, tr_buffer_size, tr_batch_size, tr_num_episodes,
                   tr_env, tr_episode, experience_buffers, episode_rewards,
                   tr_early_stop, tr_summary>>
    /\ UNCHANGED notTrainVars

\* a loop that ends at the step limit only
EpisodeEndsAtLimitOnly(is_done, steps) == steps >= TrainStepLimit

\* if done or step_count >= 1000: break
EpisodeEnds(is_done, steps) == is_done \/ steps >= TrainStepLimit

\* total_reward += reward; step_count += 1; observations = next_observations;
\* break if done or step_count >= 1000, else the next step begins.  The
\* step's actions, next_observations, reward and done are not read again
\* before they are assigned anew: they are cleared.
TrainTally ==
    /\ tr_pc = "tally"
    /\ tr_total_reward' = tr_total_reward + tr_reward
    /\ tr_step_count' = tr_step_count + 1
    /\ tr_observations' = tr_next_observations
    /\ IF EpisodeEnds(tr_done, tr_step_count')
       THEN /\ tr_pc' = "return"
            /\ UNCHANGED tr_calls
            /\ tr_hist' = [tr_hist EXCEPT !.done_before = tr_done]
       ELSE /\ tr_pc' = "select"
            /\ tr_calls' = StepStartCalls
            /\ tr_hist' = [tr_hist EXCEPT
                              !.done_before = tr_done,
                              !.resets = @ + Count(StepStartCalls,
                                                   "reset_diversity_tracking")]
    /\ tr_actions' = {}
    /\ tr_next_observations' = NoObs
    /\ tr_reward' = 0
    /\ tr_done' = FALSE
    /\ tr_batch' = <<>>
    /\ tr_update' = <<>>
    /\ UNCHANGED <<tr_agent_arrays, tr_buffer_size, tr_batch_size, tr_num_episodes,
                   tr_env, tr_episode, experience_buffers, episode_rewards,
                   tr_early_stop, tr_summary, tr_exception>>
    /\ UNCHANGED notTrainVars

\* max(recent_rewards)
RECURSIVE SeqMax(_)
SeqMax(s) == IF Len(s) = 1 THEN s[1] ELSE Max(s[1], SeqMax(Tail(s)))

\* self.training_stats['episode_rewards'][-20:]
Recent(rewards) == SubSeq(rewards, Len(rewards) - StopWindow + 1, Len(rewards))

\* a check that stops as soon as the window is full
CheckEarlyStoppingOnFullWindow(rewards, total_reward) ==
    Len(rewards) >= StopWindow

\* a check that asks the episode's reward to stay below the window's oldest
CheckEarlyStoppingStrictly(rewards, total_reward) ==
    IF Len(rewards) < StopWindow
    THEN FALSE
    ELSE /\ SeqMax(Recent(rewards)) = Recent(rewards)[1]
         /\ total_reward < Recent(rewards)[1]

\* _check_early_stopping(stats), called after the episode's reward was appended
CheckEarlyStopping(rewards, total_reward) ==
    IF Len(rewards) < StopWindow
    THEN FALSE
    ELSE /\ SeqMax(Recent(rewards)) = Recent(rewards)[1]
         /\ total_reward <= Recent(rewards)[1]

\* _run_episode returns its statistics, and its locals are gone; train appends
\* them to training_stats and checks for early stopping
TrainEpisodeReturn ==
    /\ tr_pc = "return"
    /\ tr_episode' = tr_episode + 1
    /\ episode_rewards' = Append(episode_rewards, tr_total_reward)
    /\ tr_early_stop' = CheckEarlyStopping(episode_rewards', tr_total_reward)
    /\ tr_pc' = "episode"
    /\ tr_step_count' = 0
    /\ tr_total_reward' = 0
    /\ tr_observations' = NoObs
    /\ tr_calls' = <<>>
    /\ tr_hist' = NoHist
    /\ UNCHANGED <<tr_agent_arrays, tr_buffer_size, tr_batch_size, tr_num_episodes,
                   tr_env, tr_actions, tr_next_observations, tr_reward, tr_done,
                   experience_buffers, tr_batch, tr_update, tr_summary, tr_exception>>
    /\ UNCHANGED notTrainVars

\* a summary that reports the episodes asked for
CompileTrainingResultsAsRequested(rewards) ==
    [final_reward |-> IF rewards # <<>> THEN rewards[Len(rewards)] ELSE 0,
     max_reward |-> IF rewards # <<>> THEN SeqMax(rewards) ELSE 0,
     training_episodes |-> tr_num_episodes]

\* _compile_training_results, as far as the model follows it
CompileTrainingResults(rewards) ==
    [final_reward |-> IF rewards # <<>> THEN rewards[Len(rewards)] ELSE 0,
     max_reward |-> IF rewards # <<>> THEN SeqMax(rewards) ELSE 0,
     training_episodes |-> Len(rewards)]

\* train: the loop is left, by break or because range(num_episodes) is
\* exhausted; return self._compile_training_results()
TrainReturn ==
    /\ tr_pc = "episode"
    /\ tr_early_stop \/ tr_episode >= tr_num_episodes
    /\ tr_summary' = <<CompileTrainingResults(episode_rewards)>>
    /\ tr_pc' = "returned"
    /\ UNCHANGED <<tr_agent_arrays, tr_buffer_size, tr_batch_size, tr_num_episodes,
                   tr_env, tr_episode, tr_step_count, tr_total_reward,
                   tr_observations, tr_actions, tr_next_observations, tr_reward,
                   tr_done, experience_buffers, tr_calls, tr_batch, tr_update, tr_hist,
                   episode_rewards, tr_early_stop, tr_exception>>
    /\ UNCHANGED notTrainVars

TrainNext ==
    \/ TrainEpisodeStart
    \/ TrainSelect
    \/ TrainEnvStep
    \/ TrainStore
    \/ TrainUpdate
    \/ TrainTally
    \/ TrainEpisodeReturn
    \/ TrainReturn

----------------------------------------------------------------------------
(* Part III.  Properties of the trainer *)

\* the positions of call c in the running step's history
CallsOf(c) == {i \in DOMAIN tr_calls : tr_calls[i] = c}

\* C15: reward data flow.  In every trainer step a record is added to a store
\* only after RewardCalculator.calculate_reward was called on the outcome of
\* the step's environment.step call, whose value is the record's reward.
C15_RewardFlow ==
    \A a \in CallsOf("add") :
        \E c \in CallsOf("calculate_reward") :
            /\ c < a
            /\ \E e \in CallsOf("step") : e < c

\* the trainer is inside the loop of _run_episode
InStep == tr_pc \in {"select", "step", "store", "update", "tally"}

\* C24: the diversity reset.  In every episode of train
\* reset_diversity_tracking is called exactly once: after environment.reset
\* and before the episode's first select_actions and environment.step, and
\* in no later step of the episode.
C24_DiversityResetOncePerEpisode ==
    /\ (InStep \/ tr_pc = "return") => tr_hist.resets = 1
    /\ (InStep /\ tr_step_count = 0)
          => /\ Len(tr_calls) >= 2
             /\ tr_calls[1] = "reset"
             /\ CallsOf("reset_diversity_tracking") = {2}
             /\ \A i \in CallsOf("select_actions") \cup CallsOf("step") : i > 2
    /\ (InStep /\ tr_step_count > 0) => CallsOf("reset_diversity_tracking") = {}

\* C24 witness: the second step of the second episode has run up to its
\* tally.
C24_Witness ==
    /\ tr_pc = "tally"
    /\ tr_episode = 1
    /\ tr_step_count = 1
    /\ tr_hist.resets = 1
    /\ CallsOf("step") # {}

\* C25: the periodic update.  A step attempts an update (_update_agents) iff
\* its 0-based index in the episode is a multiple of the period (10 in the
\* code), after the step's record was stored; in such a step update_policies
\* is called for a protocol iff its store holds at least batch_size records,
\* with a batch of exactly batch_size records sampled from that store.
C25_PeriodicUpdate ==
    tr_pc = "tally"
        => /\ (CallsOf("_update_agents") # {}) <=> (tr_step_count % UpdateEvery = 0)
           /\ \A u \in CallsOf("_update_agents") : \A a \in CallsOf("add") : a < u
           /\ \A p \in tr_agent_arrays :
                 (CallsOf("update_policies") # {})
                    <=> /\ tr_step_count % UpdateEvery = 0
                        /\ Len(experience_buffers[p].buffer) >= tr_batch_size
           /\ \A p \in tr_agent_arrays :
                 CallsOf("update_policies") # {}
                    => /\ Len(tr_batch) = tr_batch_size
                       /\ \A j \in DOMAIN tr_batch :
                             \E k \in DOMAIN experience_buffers[p].buffer :
                                tr_batch[j] = experience_buffers[p].buffer[k]
                       /\ \A u \in CallsOf("update_policies") :
                             /\ u > 1
                             /\ tr_calls[u - 1] = "sample"
                             /\ \A a \in CallsOf("add") : a < u
           /\ Cardinality(CallsOf("update_policies")) <= 1
           /\ Cardinality(CallsOf("_update_agents")) <= 1

\* C25 witness: the step of index UpdateEvery stored its record and updated
\* with a batch of two records; the step of index 0 could not, the store
\* holding one record then.
C25_Witness ==
    /\ tr_pc = "tally"
    /\ tr_step_count = UpdateEvery
    /\ tr_batch_size = 2
    /\ CallsOf("add") # {}
    /\ CallsOf("update_policies") # {}
    /\ Len(tr_batch) = 2

\* C26: the end of an episode.  An episode makes at least one step and
\* returns right after the first step in which the environment reported done,
\* or after TrainStepLimit steps (1000 in the code); no select_actions,
\* environment.step or add of the episode is made after a step that reported
\* done.
C26_EpisodeEnd ==
    /\ ~tr_hist.late
    /\ tr_hist.done_before => tr_pc = "return"
    /\ InStep => tr_step_count < TrainStepLimit
    /\ tr_pc = "return"
          => /\ tr_step_count >= 1
             /\ tr_step_count <= TrainStepLimit
             /\ tr_hist.done_before \/ tr_step_count = TrainStepLimit

\* C26 witness: an episode returns after its second step, which reported done
\* before the step limit.
C26_Witness ==
    /\ tr_pc = "return"
    /\ tr_hist.done_before
    /\ tr_step_count = 2
    /\ tr_step_count < TrainStepLimit

\* an episode has returned and train has made its early-stopping check
Checked == tr_pc \in {"episode", "returned"} /\ tr_episode > 0

\* the rewards of the last StopWindow recorded episodes, oldest first
Window ==
    [i \in 1..StopWindow |-> episode_rewards[Len(episode_rewards) - StopWindow + i]]

\* the best reward of the window
BestOfWindow ==
    CHOOSE b \in {Window[i] : i \in 1..StopWindow} :
        \A i \in 1..StopWindow : Window[i] <= b

\* what holds of early stopping whatever the condition of the stop is
EarlyStoppingFrame ==
    /\ Len(episode_rewards) < StopWindow => ~tr_early_stop
    /\ tr_early_stop => Checked
    /\ (tr_pc = "returned" /\ ~tr_early_stop) => tr_episode = tr_num_episodes

\* C27 as stated: early stopping.  There is no early stop while fewer than
\* StopWindow (20 in the code) episodes are recorded; after that, train stops
\* after the current episode iff the best reward of the window of the last
\* StopWindow episodes is not exceeded within the window and the current
\* episode's reward does not exceed it; otherwise it goes on to the next
\* episode.
C27_EarlyStoppingBestOfWindow ==
    /\ EarlyStoppingFrame
    /\ (Checked /\ Len(episode_rewards) >= StopWindow)
          => (tr_early_stop
                <=> /\ \A i \in 1..StopWindow : Window[i] <= BestOfWindow
                    /\ episode_rewards[Len(episode_rewards)] <= BestOfWindow)

\* C27 amended: early stopping.  There is no early stop while fewer than
\* StopWindow (20 in the code) episodes are recorded; after that, train stops
\* after the current episode iff no reward in the window of the last
\* StopWindow episodes, the current episode's included, exceeds the oldest
\* reward of the window; otherwise it goes on to the next episode.
C27_EarlyStoppingOldestOfWindow ==
    /\ EarlyStoppingFrame
    /\ (Checked /\ Len(episode_rewards) >= StopWindow)
          => (tr_early_stop <=> \A i \in 1..StopWindow : Window[i] <= Window[1])

\* C27 witness: train(n) with n above the window has stopped early as soon
\* as the window was full.
C27_Witness ==
    /\ tr_pc = "returned"
    /\ tr_early_stop
    /\ Len(episode_rewards) = StopWindow
    /\ tr_num_episodes > StopWindow

\* environment.reset or environment.step has raised
EnvironmentFailed == tr_exception \in {"reset", "step"}

\* C28: failures of the environment.  When environment.reset or
\* environment.step raises in train, the exception leaves train: no further
\* step or episode is made, the episode that failed is not appended to the
\* training statistics, and no summary is returned.
C28_EnvironmentFailurePropagates ==
    /\ [](EnvironmentFailed
            => /\ tr_pc = "raised"
               /\ tr_summary = <<>>
               /\ Len(episode_rewards) = tr_episode
               /\ Len(episode_rewards) < tr_num_episodes)
    /\ [][EnvironmentFailed => trainVars' = trainVars]_vars

\* C28 witness: environment.step raised in the second episode; the first
\* episode is recorded.
C28_Witness ==
    /\ tr_exception = "step"
    /\ tr_pc = "raised"
    /\ Len(episode_rewards) = 1

\* train is over: it has returned its summary, or an exception has left it
TrainOver == tr_pc \in {"returned", "raised"}

C36_UpdateUsesStepReward ==
    tr_pc = "tally"
        => /\ Len(tr_update) = Len(tr_batch)
           /\ \A i \in DOMAIN tr_batch : tr_update[i] = {tr_reward}

\* C36 witness: an update has evaluated a batch of two records that were
\* stored with different rewards, one of an earlier step, against the reward
\* of the step that made the update.
C36_Witness ==
    /\ tr_pc = "tally"
    /\ Len(tr_batch) = 2
    /\ tr_batch[1].reward # tr_batch[2].reward
    /\ \A i \in DOMAIN tr_batch : tr_update[i] = {tr_reward}

\* every episode recorded so far had the same total reward
SameRewardEveryEpisode ==
    \A i, j \in DOMAIN episode_rewards : episode_rewards[i] = episode_rewards[j]

\* C37: early stopping in an environment of constant episode reward.  Once
\* StopWindow (20 in the code) episodes are recorded, the check fires exactly
\* when the oldest reward of the window of the last StopWindow episodes, the
\* just-finished one included, is at least every other reward of the window.
\* So when every episode has the same total reward, train(n) with n >=
\* StopWindow records exactly StopWindow episodes, stops early, and reports
\* StopWindow episodes in its summary.
C37_ConstantRewardStopsAtWindow ==
    /\ (Checked /\ Len(episode_rewards) >= StopWindow)
          => (tr_early_stop <=> \A i \in 2..StopWindow : Window[1] >= Window[i])
    /\ SameRewardEveryEpisode
          => /\ Len(episode_rewards) <= StopWindow
             /\ (Checked /\ Len(episode_rewards) = StopWindow) => tr_early_stop
             /\ (tr_pc = "returned" /\ tr_num_episodes >= StopWindow)
                   => /\ Len(episode_rewards) = StopWindow
                      /\ tr_summary[1].training_episodes = StopWindow

\* C37 witness: train(n) with n above the window, in episodes of the same
\* positive total reward, has returned with a summary of StopWindow episodes.
C37_Witness ==
    /\ tr_pc = "returned"
    /\ tr_num_episodes = StopWindow + 1
    /\ SameRewardEveryEpisode
    /\ episode_rewards[1] > 0
    /\ tr_summary[1].training_episodes = StopWindow

\* C38: one record per step.  A step of the trainer adds exactly one record,
\* holding the step's reward, to the store of every agent array whose
\* protocol is observed before and after the step, and changes no other
\* store; nothing else changes a store, in particular not the start of an
\* episode, so that a store holds min(T, capacity) records after T such
\* steps.
C38_StepStoresOneRecord ==
    [][\A p \in tr_agent_arrays :
          IF tr_pc = "store" /\ p \in Storing
          THEN /\ Len(experience_buffers'[p].buffer)
                     = Min(Len(experience_buffers[p].buffer) + 1, tr_buffer_size)
               /\ experience_buffers'[p].buffer[experience_buffers[p].position + 1]
                     = Experience(tr_reward)
          ELSE experience_buffers'[p] = experience_buffers[p]]_vars

----------------------------------------------------------------------------
(* Part IV.  AgentArray and its ProtocolAgents *)

\* field names: a protocol declares some of them, an observation map or a
\* record may carry any of them
FieldNames == {"function_code", "data"}

\* field_config[field]['state_dim'] and ['action_dim']
StateDims == [f \in FieldNames |-> IF f = "data" THEN 2 ELSE 1]
ActionDims == [f \in FieldNames |-> 2]

\* the value networks there are; the array is given a reference to one
CriticIds == {"critic_a", "critic_b"}

KeySet(k) == {k[i] : i \in DOMAIN k}

\* the key orders of a dict with at most n keys
KeyOrders(n) == {k \in UNION {[1..m -> FieldNames] : m \in 0..n} : Injective(k)}

\* the observation tensor of field f: StateDims[f] components, each its own
ObsVector(f) == [i \in 1..StateDims[f] |-> <<f, i>>]

NoMap == [f \in {} |-> 0]

\* a value network as constructed: params counts the changes of its
\* parameters, grad tells whether a backward pass has left gradients in its
\* parameters' .grad buffers
NewCritic == [params |-> 0, grad |-> FALSE]

NoArrayRet ==
    [op |-> "none", keys |-> <<>>, experiences |-> <<>>, ok |-> TRUE,
     actions |-> NoMap, vector |-> <<>>, calls |-> <<>>, before |-> <<>>,
     agent |-> 0, critic_before |-> NewCritic]

\* ProtocolAgent.__init__: the agent keeps the references it is given;
\* policy_network counts the changes of the policy's parameters, optimizer
\* the steps of the agent's optimizer
ProtocolAgent(field_name, value_network) ==
    [field_name |-> field_name, policy_network |-> 0,
     value_network |-> value_network, optimizer |-> 0]

\* an array whose agents each get a copy of the value network
InitializeAgentsCopying(fc, critic) ==
    [i \in 1..Len(fc) |-> ProtocolAgent(fc[i], <<"copy", critic, i>>)]

\* an array that builds every agent for the first declared field
InitializeAgentsFirstField(fc, critic) ==
    [i \in 1..Len(fc) |-> ProtocolAgent(fc[1], critic)]

\* AgentArray._initialize_agents: one agent per item of field_config, in the
\* map's iteration order
InitializeAgents(fc, critic) ==
    [i \in 1..Len(fc) |-> ProtocolAgent(fc[i], critic)]

\* AgentArray.__init__
ArrayInit ==
    /\ \E fc \in KeyOrders(MaxFields), c \in CriticIds :
          /\ ctor = [field_config |-> fc, shared_value_network |-> c]
          /\ field_config = fc
          /\ shared_value_network = c
    /\ agents = InitializeAgents(field_config, shared_value_network)
    /\ critic_state = NewCritic
    /\ array_updates = 0
    /\ array_ret = NoArrayRet

\* the agent array while another part is exercised
ArrayIdle ==
    /\ ctor = [field_config |-> <<>>, shared_value_network |-> "none"]
    /\ field_config = <<>>
    /\ shared_value_network = "none"
    /\ agents = <<>>
    /\ critic_state = NewCritic
    /\ array_updates = 0
    /\ array_ret = NoArrayRet

\* actions[key] = value on a dict
Put(m, key, value) == [x \in DOMAIN m \cup {key} |-> IF x = key THEN value ELSE m[x]]

\* what the policies' Categorical samples can be, per declared field
Draws ==
    {d \in [KeySet(field_config) -> 0..1] :
        \A f \in KeySet(field_config) : d[f] < ActionDims[f]}

\* a loop that passes over the agents whose field has no observation
RECURSIVE SelectActionsSkipping(_, _, _, _, _)
SelectActionsSkipping(ags, keys, draw, i, acts) ==
    IF i > Len(ags)
    THEN [ok |-> TRUE, actions |-> acts]
    ELSE IF ags[i].field_name \notin keys
         THEN SelectActionsSkipping(ags, keys, draw, i + 1, acts)
         ELSE SelectActionsSkipping(ags, keys, draw, i + 1,
                  Put(acts, ags[i].field_name, draw[ags[i].field_name]))

\* AgentArray.select_actions from agent i on: observations[agent.field_name]
\* raises KeyError when the field is not a key, and nothing is returned
RECURSIVE SelectActions(_, _, _, _, _)
SelectActions(ags, keys, draw, i, acts) ==
    IF i > Len(ags)
    THEN [ok |-> TRUE, actions |-> acts]
    ELSE IF ags[i].field_name \notin keys
         THEN [ok |-> FALSE, actions |-> NoMap]
         ELSE SelectActions(ags, keys, draw, i + 1,
                  Put(acts, ags[i].field_name, draw[ags[i].field_name]))

\* a call of select_actions with an observation map of any of the field names
ArraySelectActions ==
    /\ \E o \in KeyOrders(Cardinality(FieldNames)), d \in Draws :
          \E r \in {SelectActions(agents, KeySet(o), d, 1, NoMap)} :
             array_ret' = [NoArrayRet EXCEPT !.op = "select_actions", !.keys = o,
                                            !.ok = r.ok, !.actions = r.actions]
    /\ UNCHANGED <<ctor, field_config, shared_value_network, agents, critic_state,
                   array_updates>>
    /\ UNCHANGED notArrayVars

\* torch.cat(obs_list, dim=-1) on one-dimensional tensors
RECURSIVE Cat(_)
Cat(obs_list) == IF obs_list = <<>> THEN <<>> ELSE Head(obs_list) \o Cat(Tail(obs_list))

\* a loop over the observation map's items where it should be over the agents
RECURSIVE ObsListInMapOrder(_, _, _, _)
ObsListInMapOrder(ags, o, i, obs_list) ==
    IF i > Len(o)
    THEN obs_list
    ELSE IF \E j \in DOMAIN ags : ags[j].field_name = o[i]
         THEN ObsListInMapOrder(ags, o, i + 1, Append(obs_list, ObsVector(o[i])))
         ELSE ObsListInMapOrder(ags, o, i + 1, obs_list)

\* get_global_observation: obs_list, from agent i on; o is the key order of
\* individual_observations
RECURSIVE ObsList(_, _, _, _)
ObsList(ags, o, i, obs_list) ==
    IF i > Len(ags)
    THEN obs_list
    ELSE IF ags[i].field_name \in KeySet(o)
         THEN ObsList(ags, o, i + 1, Append(obs_list, ObsVector(ags[i].field_name)))
         ELSE ObsList(ags, o, i + 1, obs_list)

\* AgentArray.get_global_observation; torch.tensor([]) is the empty vector
GetGlobalObservation(ags, o) ==
    IF ObsList(ags, o, 1, <<>>) # <<>> THEN Cat(ObsList(ags, o, 1, <<>>)) ELSE <<>>

\* a call of get_global_observation
ArrayGetGlobalObservation ==
    /\ \E o \in KeyOrders(Cardinality(FieldNames)) :
          array_ret' = [NoArrayRet EXCEPT !.op = "get_global_observation", !.keys = o,
                                         !.vector = GetGlobalObservation(agents, o)]
    /\ UNCHANGED <<ctor, field_config, shared_value_network, agents, critic_state,
                   array_updates>>
    /\ UNCHANGED notArrayVars

\* the experience lists update_policies is given: records as
\* _store_experiences builds them, of which the model follows the position in
\* the list and the key set of 'observations'
ExperienceLists ==
    UNION {{[j \in 1..m |-> [id |-> j, observations |-> ks[j]]] :
               ks \in [1..m -> SUBSET FieldNames]} : m \in 0..MaxBatch}

\* a filter that keeps every experience
RECURSIVE FieldExperiencesAll(_, _)
FieldExperiencesAll(exps, f) ==
    IF exps = <<>>
    THEN <<>>
    ELSE <<Head(exps)>> \o FieldExperiencesAll(Tail(exps), f)

\* [exp for exp in experiences if agent.field_name in exp['observations']]
RECURSIVE FieldExperiences(_, _)
FieldExperiences(exps, f) ==
    IF exps = <<>>
    THEN <<>>
    ELSE (IF f \in Head(exps).observations THEN <<Head(exps)>> ELSE <<>>)
            \o FieldExperiences(Tail(exps), f)

\* update_policy reads exp['observations'][self.field_name] of every
\* experience: KeyError, before anything is changed, when one lacks the field
UpdatePolicyRaises(agent, exps) ==
    \E j \in DOMAIN exps : agent.field_name \notin exps[j].observations

\* an update that steps the optimizer once per experience
UpdatePolicyStepPerExperience(agent, exps) ==
    IF exps = <<>>
    THEN agent
    ELSE [agent EXCEPT !.policy_network = @ + Len(exps), !.optimizer = @ + Len(exps)]

\* ProtocolAgent.update_policy: nothing on an empty list, else one optimizer
\* step on the agent's own policy parameters
UpdatePolicy(agent, exps) ==
    IF exps = <<>>
    THEN agent
    ELSE [agent EXCEPT !.policy_network = @ + 1, !.optimizer = @ + 1]

\* update_policy and the value network: policy_loss depends on
\* self.value_network(...), so policy_loss.backward() leaves gradients in the
\* value network's buffers; the optimizer holds the policy's parameters only,
\* so zero_grad and step do not touch the value network
CriticAfterUpdatePolicy(critic, exps) ==
    IF exps = <<>>
    THEN critic
    ELSE [critic EXCEPT !.grad = TRUE]

\* AgentArray.update_policies from agent i on; calls is the history of the
\* update_policy calls made
RECURSIVE UpdatePolicies(_, _, _, _)
UpdatePolicies(ags, exps, i, calls) ==
    IF i > Len(ags)
    THEN [agents |-> ags, calls |-> calls]
    ELSE IF FieldExperiences(exps, ags[i].field_name) # <<>>
         THEN UpdatePolicies(
                  [ags EXCEPT ![i] = UpdatePolicy(ags[i],
                                         FieldExperiences(exps, ags[i].field_name))],
                  exps, i + 1,
                  Append(calls, [agent |-> i,
                                 experiences |-> FieldExperiences(exps, ags[i].field_name)]))
         ELSE UpdatePolicies(ags, exps, i + 1, calls)

\* the value network after the update_policy calls of one update_policies call
RECURSIVE CriticAfterCalls(_, _)
CriticAfterCalls(critic, calls) ==
    IF calls = <<>>
    THEN critic
    ELSE CriticAfterCalls(CriticAfterUpdatePolicy(critic, Head(calls).experiences),
                          Tail(calls))

\* a call of update_policies
ArrayUpdatePolicies ==
    /\ array_updates < MaxArrayUpdates
    /\ \E exps \in ExperienceLists :
          \E r \in {UpdatePolicies(agents, exps, 1, <<>>)} :
             /\ agents' = r.agents
             /\ critic_state' = CriticAfterCalls(critic_state, r.calls)
             /\ array_ret' = [NoArrayRet EXCEPT !.op = "update_policies",
                                                !.experiences = exps,
                                                !.calls = r.calls,
                                                !.before = agents,
                                                !.critic_before = critic_state]
    /\ array_updates' = array_updates + 1
    /\ UNCHANGED <<ctor, field_config, shared_value_network>>
    /\ UNCHANGED notArrayVars

\* a call of update_policy on one agent of the array
ArrayUpdatePolicy ==
    /\ array_updates < MaxArrayUpdates
    /\ \E i \in DOMAIN agents, exps \in ExperienceLists :
          /\ IF UpdatePolicyRaises(agents[i], exps)
             THEN UNCHANGED <<agents, critic_state>>
             ELSE /\ agents' = [agents EXCEPT ![i] = UpdatePolicy(agents[i], exps)]
                  /\ critic_state' = CriticAfterUpdatePolicy(critic_state, exps)
          /\ array_ret' = [NoArrayRet EXCEPT !.op = "update_policy",
                                             !.agent = i,
                                             !.experiences = exps,
                                             !.ok = ~UpdatePolicyRaises(agents[i], exps),
                                             !.before = agents,
                                             !.critic_before = critic_state]
    /\ array_updates' = array_updates + 1
    /\ UNCHANGED <<ctor, field_config, shared_value_network>>
    /\ UNCHANGED notArrayVars

ArrayNext ==
    \/ ArraySelectActions
    \/ ArrayGetGlobalObservation
    \/ ArrayUpdatePolicies
    \/ ArrayUpdatePolicy

----------------------------------------------------------------------------
(* Part IV.  Properties of the agent array *)

\* the declared fields, as the constructor was given them
Declared == KeySet(ctor.field_config)

\* C16: one agent per declared field.  The array has exactly as many agents
\* as the protocol declares fields, the i-th agent is the agent of the i-th
\* declared field in the field map's order, and so the agents' field names are
\* exactly the declared fields; this holds after any sequence of
\* select_actions, update_policies and get_global_observation calls.
C16_OneAgentPerField ==
    /\ Len(agents) = Len(ctor.field_config)
    /\ \A i \in DOMAIN agents : agents[i].field_name = ctor.field_config[i]
    /\ {agents[i].field_name : i \in DOMAIN agents} = Declared
    /\ Cardinality(Declared) = Len(agents)

\* C16 witness: an array of two fields after an update_policies call that
\* updated an agent and a later select_actions call.
C16_Witness ==
    /\ Len(ctor.field_config) = 2
    /\ array_ret.op = "select_actions"
    /\ array_updates > 0
    /\ \E i \in DOMAIN agents : agents[i].optimizer > 0

\* C17: one shared critic.  Every agent of the array refers to the very
\* value network the array was constructed with, as does the array itself;
\* no agent holds a copy or another network, at any time.
C17_SharedCriticByReference ==
    /\ shared_value_network = ctor.shared_value_network
    /\ \A i \in DOMAIN agents : agents[i].value_network = ctor.shared_value_network

\* C17 witness: an array of two agents, both updated since construction, and
\* a later get_global_observation call.
C17_Witness ==
    /\ Len(agents) = 2
    /\ \A i \in DOMAIN agents : agents[i].optimizer > 0
    /\ array_ret.op = "get_global_observation"

\* C18: select_actions.  With an observation for every declared field the
\* call returns a map whose keys are exactly the declared fields, each with
\* one action of the field's action range; a returned map never has a key
\* that is no key of the observations; and with a declared field unobserved
\* the call raises and returns no map at all.
C18_SelectActionsResult ==
    array_ret.op = "select_actions"
        => /\ Declared \subseteq KeySet(array_ret.keys)
                => /\ array_ret.ok
                   /\ DOMAIN array_ret.actions = Declared
                   /\ \A f \in Declared : array_ret.actions[f] \in 0..(ActionDims[f] - 1)
           /\ DOMAIN array_ret.actions \subseteq KeySet(array_ret.keys)
           /\ ~(Declared \subseteq KeySet(array_ret.keys))
                => /\ ~array_ret.ok
                   /\ array_ret.actions = NoMap

\* C18 witness: a call with a declared field observed and another declared
\* field missing has raised.
C18_Witness ==
    /\ array_ret.op = "select_actions"
    /\ ~array_ret.ok
    /\ Len(agents) = 2
    /\ Len(array_ret.keys) = 1
    /\ array_ret.keys[1] = agents[1].field_name

\* the declared fields before the i-th that have an observation in key order o
PresentBefore(o, i) ==
    {j \in 1..(i - 1) : ctor.field_config[j] \in KeySet(o)}

\* the sum of the observation sizes of the declared fields of index set js
RECURSIVE SizeOf(_)
SizeOf(js) ==
    IF js = {}
    THEN 0
    ELSE LET j == CHOOSE x \in js : TRUE
         IN  StateDims[ctor.field_config[j]] + SizeOf(js \ {j})

\* C19: get_global_observation.  The result's size is the sum of the sizes
\* of the observations of the declared fields present in the map (so it is
\* empty when none is present), and the observation of each present declared
\* field lies in it right after those of the present declared fields that
\* precede it in declaration order, whatever the order of the map's keys.
C19_GlobalObservation ==
    array_ret.op = "get_global_observation"
        => /\ Len(array_ret.vector)
                 = SizeOf({j \in DOMAIN ctor.field_config :
                              ctor.field_config[j] \in KeySet(array_ret.keys)})
           /\ \A i \in DOMAIN ctor.field_config :
                 ctor.field_config[i] \in KeySet(array_ret.keys)
                    => \A c \in 1..StateDims[ctor.field_config[i]] :
                          array_ret.vector[SizeOf(PresentBefore(array_ret.keys, i)) + c]
                             = ObsVector(ctor.field_config[i])[c]

\* C19 witness: two declared fields, both observed, the map listing them in
\* the opposite order.
C19_Witness ==
    /\ array_ret.op = "get_global_observation"
    /\ Len(ctor.field_config) = 2
    /\ Len(array_ret.keys) = 2
    /\ array_ret.keys[1] = ctor.field_config[2]
    /\ Len(array_ret.vector) = 3

\* the update_policy calls of the last update_policies call on agent i
CallsOn(i) == {c \in DOMAIN array_ret.calls : array_ret.calls[c].agent = i}

\* the positions of the experiences whose observations hold agent i's field
Matching(i) ==
    {j \in DOMAIN array_ret.experiences :
        array_ret.before[i].field_name \in array_ret.experiences[j].observations}

C21_UpdatePolicyFrame ==
    (array_ret.op = "update_policy" /\ array_ret.ok)
        => /\ \A j \in DOMAIN agents :
                 j # array_ret.agent => agents[j] = array_ret.before[j]
           /\ Len(agents) = Len(array_ret.before)
           /\ critic_state.params = array_ret.critic_before.params
           /\ agents[array_ret.agent].field_name
                 = array_ret.before[array_ret.agent].field_name
           /\ agents[array_ret.agent].value_network
                 = array_ret.before[array_ret.agent].value_network
           /\ array_ret.experiences # <<>>
                 => /\ agents[array_ret.agent].optimizer
                          = array_ret.before[array_ret.agent].optimizer + 1
                    /\ agents[array_ret.agent].policy_network
                          = array_ret.before[array_ret.agent].policy_network + 1
           /\ array_ret.experiences = <<>>
                 => /\ agents = array_ret.before
                    /\ critic_state = array_ret.critic_before

\* C21 witness: in an array of two agents, update_policy was called on one
\* of them with two experiences and made its one step.
C21_Witness ==
    /\ array_ret.op = "update_policy"
    /\ array_ret.ok
    /\ Len(agents) = 2
    /\ Len(array_ret.experiences) = 2
    /\ agents[array_ret.agent].optimizer = array_ret.before[array_ret.agent].optimizer + 1

----------------------------------------------------------------------------
(* Part V: the reward calculator *)

\* Rewards, scores and weights are floats in the code; the model computes
\* them as exact rationals <<n, d>>.

\* sequences over S of at most n items
SeqsUpTo(S, n) == UNION {[1..k -> S] : k \in 0..n}

\* config['rewards']['vulnerability_scores'] as the integration test gives it
VulnerabilityScores ==
    [critical |-> <<4, 1>>, major |-> <<3, 1>>, minor |-> <<2, 1>>,
     general |-> <<1, 1>>, none |-> <<0, 1>>]

\* config['rewards']['weights']: the integration test's weights, and weights
\* that give nothing for vulnerabilities
RewardWeights ==
    {[vulnerability |-> <<1, 2>>, depth |-> <<1, 4>>, diversity |-> <<1, 4>>],
     [vulnerability |-> <<0, 1>>, depth |-> <<1, 4>>, diversity |-> <<1, 4>>]}

\* a reported vulnerability is a map; of its items the model keeps
\* 'severity': <<s>>, or <<>> for a map without that key
Findings == {<<>>, <<"critical">>, <<"major">>, <<"minor">>}

\* fuzzing_results['execution_depth']: the values of the map, in map order
DepthMaps == {<<>>, <<50, 30>>, <<150, 80, 200>>}

Labels == {"buffer_overflow", "integer_overflow", "dos"}

ExampleLabels == <<"buffer_overflow", "integer_overflow", "dos">>

ExampleResults ==
    [vulnerabilities |-> <<<<"critical">>, <<"major">>, <<"minor">>>>,
     execution_depth |-> <<150, 80, 200>>,
     vulnerability_types |-> ExampleLabels]

\* the fuzzing results calculate_reward is called with: results that vary in
\* vulnerabilities and depths, results that vary in labels, and the example
FuzzingResults ==
    {[vulnerabilities |-> v, execution_depth |-> d, vulnerability_types |-> t] :
        v \in SeqsUpTo(Findings, MaxFindings), d \in DepthMaps, t \in {<<>>}}
    \cup
    {[vulnerabilities |-> <<>>, execution_depth |-> <<>>, vulnerability_types |-> t] :
        t \in SeqsUpTo(Labels, MaxLabels)}
    \cup {ExampleResults}

NoResults == [vulnerabilities |-> <<>>, execution_depth |-> <<>>,
              vulnerability_types |-> <<>>]

NoRewardRet == [op |-> "none", fuzzing_results |-> NoResults, reward |-> RZero,
                diversity |-> 0, diversity_before |-> 0]

\* RewardCalculator.__init__
RewardInit ==
    /\ vulnerability_weights = VulnerabilityScores
    /\ reward_weights \in RewardWeights
    /\ discovered_vulnerabilities = {}
    /\ labels_passed = {}
    /\ rw_ret = NoRewardRet

\* no reward calculator
RewardIdle ==
    /\ vulnerability_weights = VulnerabilityScores
    /\ reward_weights = CHOOSE w \in RewardWeights : w.vulnerability # RZero
    /\ discovered_vulnerabilities = {}
    /\ labels_passed = {}
    /\ rw_ret = NoRewardRet

\* vuln.get('severity', 'none')
Severity(vuln) == IF vuln = <<>> THEN "none" ELSE vuln[1]

\* self.vulnerability_weights.get(severity, 0)
Score(weights, severity) ==
    IF severity \in DOMAIN weights THEN weights[severity] ELSE RZero

\* a multiplier that doubles critical findings too
MultiplierDoubling(severity) ==
    IF severity = "critical" THEN 2
    ELSE IF severity = "major" THEN 2
    ELSE 1

\* the multiplier of a finding's score
Multiplier(severity) ==
    IF severity = "critical" THEN 3
    ELSE IF severity = "major" THEN 2
    ELSE 1

\* _calculate_vulnerability_reward
RECURSIVE CalculateVulnerabilityReward(_, _)
CalculateVulnerabilityReward(weights, vulnerabilities) ==
    IF vulnerabilities = <<>>
    THEN RZero
    ELSE LET severity == Severity(Head(vulnerabilities))
         IN  RAdd(RMul(Score(weights, severity), <<Multiplier(severity), 1>>),
                  CalculateVulnerabilityReward(weights, Tail(vulnerabilities)))

\* _calculate_depth_reward: 0.0 for an empty map, else sum / len
CalculateDepthReward(execution_depth) ==
    IF execution_depth = <<>>
    THEN RZero
    ELSE Rat(IntSum(execution_depth), Len(execution_depth))

\* a label set that is replaced by the step's labels
DiscoveredAfterReplacing(discovered, vulnerability_types) ==
    {vulnerability_types[i] : i \in DOMAIN vulnerability_types}

\* _calculate_diversity_reward: the set after add() of every label
DiscoveredAfter(discovered, vulnerability_types) ==
    discovered \cup {vulnerability_types[i] : i \in DOMAIN vulnerability_types}

\* the total of calculate_reward
TotalReward(w, vuln_reward, depth_reward, diversity_reward) ==
    RAdd(RAdd(RMul(w.vulnerability, vuln_reward), RMul(w.depth, depth_reward)),
         RMul(w.diversity, <<diversity_reward, 1>>))

\* calculate_reward
CalculateReward ==
    /\ \E results \in FuzzingResults :
          \E found \in {DiscoveredAfter(discovered_vulnerabilities,
                                        results.vulnerability_types)} :
             /\ discovered_vulnerabilities' = found
             /\ labels_passed' = labels_passed
                    \cup {results.vulnerability_types[i] :
                             i \in DOMAIN results.vulnerability_types}
             /\ rw_ret' = [op |-> "calculate_reward",
                           fuzzing_results |-> results,
                           reward |-> TotalReward(reward_weights,
                                         CalculateVulnerabilityReward(
                                             vulnerability_weights,
                                             results.vulnerabilities),
                                         CalculateDepthReward(results.execution_depth),
                                         Cardinality(found)),
                           diversity |-> Cardinality(found),
                           diversity_before |-> Cardinality(discovered_vulnerabilities)]
    /\ UNCHANGED <<vulnerability_weights, reward_weights>>
    /\ UNCHANGED notRewardVars

\* reset_diversity_tracking
ResetDiversityTracking ==
    /\ discovered_vulnerabilities' = {}
    /\ labels_passed' = {}
    /\ rw_ret' = [NoRewardRet EXCEPT !.op = "reset_diversity_tracking",
                                    !.diversity_before =
                                        Cardinality(discovered_vulnerabilities)]
    /\ UNCHANGED <<vulnerability_weights, reward_weights>>
    /\ UNCHANGED notRewardVars

RewardNext ==
    \/ CalculateReward
    \/ ResetDiversityTracking

----------------------------------------------------------------------------
(* Claims about the reward calculator *)

\* the multiplied base score of one reported vulnerability
ScoredAt(vuln) ==
    IF vuln = <<"critical">> THEN <<12, 1>>
    ELSE IF vuln = <<"major">> THEN <<6, 1>>
    ELSE IF vuln = <<"minor">> THEN <<2, 1>>
    ELSE RZero

\* V, D and S of the last call
TermV == RSum([i \in DOMAIN rw_ret.fuzzing_results.vulnerabilities |->
                  ScoredAt(rw_ret.fuzzing_results.vulnerabilities[i])])

TermD ==
    LET d == rw_ret.fuzzing_results.execution_depth
    IN  IF Len(d) = 0 THEN RZero ELSE RDiv(<<IntSum(d), 1>>, <<Len(d), 1>>)

TermS == <<Cardinality(discovered_vulnerabilities), 1>>

WeightedSum ==
    RAdd(RMul(reward_weights.vulnerability, TermV),
         RAdd(RMul(reward_weights.depth, TermD),
              RMul(reward_weights.diversity, TermS)))

PositivelyScored ==
    \E i \in DOMAIN rw_ret.fuzzing_results.vulnerabilities :
        RLt(RZero, ScoredAt(rw_ret.fuzzing_results.vulnerabilities[i]))

ExampleCase ==
    /\ rw_ret.op = "calculate_reward"
    /\ rw_ret.fuzzing_results = ExampleResults
    /\ rw_ret.diversity_before = 0
    /\ reward_weights.vulnerability = <<1, 2>>

\* the returned reward is the weighted sum, and 46.583 (within 0.001) in the example
RewardFormula ==
    /\ rw_ret.op = "calculate_reward" => rw_ret.reward = WeightedSum
    /\ ExampleCase
          => /\ RLeq(<<46582, 1000>>, rw_ret.reward)
             /\ RLeq(rw_ret.reward, <<46584, 1000>>)

C23_DiversityCount ==
    /\ rw_ret.op = "calculate_reward"
          => /\ rw_ret.diversity >= rw_ret.diversity_before
             /\ rw_ret.diversity = Cardinality(labels_passed)
             /\ Cardinality(discovered_vulnerabilities) = rw_ret.diversity
    /\ rw_ret.op = "reset_diversity_tracking"
          => Cardinality(discovered_vulnerabilities) = 0

\* C23 witness: a call that passed a label seen before in the episode and a
\* new one, with the count grown by one.
C23_Witness ==
    /\ rw_ret.op = "calculate_reward"
    /\ rw_ret.diversity_before = 1
    /\ rw_ret.diversity = 2
    /\ Len(rw_ret.fuzzing_results.vulnerability_types) = 2
    /\ rw_ret.fuzzing_results.vulnerability_types[1]
          # rw_ret.fuzzing_results.vulnerability_types[2]

----------------------------------------------------------------------------
(* Part VI: save_models *)

\* the orders of the keys of a dict whose keys are protocols
ProtocolOrders == {k \in UNION {[1..m -> Protocols] : m \in 0..2} : Injective(k)}

\* OmniFuzzTrainer.agent_arrays: per protocol an AgentArray whose agents are
\* the declared fields, in the order of the field configuration
AgentArrayMaps ==
    UNION {[1..Len(k) -> {[protocol |-> k[i], fields |-> f] :
                             i \in DOMAIN k, f \in KeyOrders(MaxFields)}] :
              k \in ProtocolOrders}

\* the networks of a trainer: per protocol one policy network per agent
\* (of = <<field name>>) and the shared value network (of = <<>>)
Networks(arrays) ==
    UNION {{[protocol |-> arrays[a].protocol, of |-> <<arrays[a].fields[j]>>] :
               j \in DOMAIN arrays[a].fields}
           \cup {[protocol |-> arrays[a].protocol, of |-> <<>>]} : a \in DOMAIN arrays}

\* every network holds the parameters it was constructed with
NewParams(arrays) == [n \in Networks(arrays) |-> <<>>]

\* a trainer and an empty save_dir
SaveInit ==
    /\ sv_agent_arrays \in {a \in AgentArrayMaps :
                               Injective([i \in DOMAIN a |-> a[i].protocol])}
    /\ files = {}
    /\ sv_pc = "idle"
    /\ sv_i = 1
    /\ sv_j = 1
    /\ sv_writes = <<>>
    /\ sv_saves = 0
    /\ dirs = {}
    /\ params = NewParams(sv_agent_arrays)
    /\ sv_log = <<>>

\* no trainer
SaveIdle ==
    /\ sv_agent_arrays = <<>>
    /\ files = {}
    /\ sv_pc = "none"
    /\ sv_i = 1
    /\ sv_j = 1
    /\ sv_writes = <<>>
    /\ sv_saves = 0
    /\ dirs = {}
    /\ params = NewParams(<<>>)
    /\ sv_log = <<>>

\* a file name that does not tell the fields apart
AgentFileOfArray(field_name) == "agent" \o ".pth"

\* f"agent_{agent.field_name}.pth"
AgentFile(field_name) == "agent_" \o field_name \o ".pth"

ValueNetworkFile == "value_network.pth"

\* save_models is entered: save_path.mkdir(parents=True, exist_ok=True)
SaveBegin ==
    /\ sv_pc = "idle"
    /\ sv_saves < MaxSaves
    /\ sv_pc' = "loop"
    /\ sv_i' = 1
    /\ sv_j' = 1
    /\ sv_writes' = <<>>
    /\ sv_log' = <<>>
    /\ UNCHANGED <<sv_agent_arrays, files, sv_saves, dirs, params>>
    /\ UNCHANGED notSaveVars

\* protocol_save_path.mkdir(parents=True, exist_ok=True) and
\* torch.save(agent.policy_network.state_dict(), model_path) for the next
\* agent of the array, in protocol_save_path
SaveAgent ==
    /\ sv_pc = "loop"
    /\ sv_i <= Len(sv_agent_arrays)
    /\ sv_j <= Len(sv_agent_arrays[sv_i].fields)
    /\ \E path \in {<<sv_agent_arrays[sv_i].protocol,
                      AgentFile(sv_agent_arrays[sv_i].fields[sv_j])>>} :
          /\ files' = files \cup {path}
          /\ sv_writes' = Append(sv_writes,
                                 [path |-> path,
                                  of |-> <<sv_agent_arrays[sv_i].fields[sv_j]>>])
    /\ sv_j' = sv_j + 1
    /\ dirs' = dirs \cup {sv_agent_arrays[sv_i].protocol}
    /\ UNCHANGED <<sv_agent_arrays, sv_pc, sv_i, sv_saves, params, sv_log>>
    /\ UNCHANGED notSaveVars

\* torch.save(agent_array.shared_value_network.state_dict(), value_net_path)
\* after the array's agents, and on to the next agent array
SaveValueNetwork ==
    /\ sv_pc = "loop"
    /\ sv_i <= Len(sv_agent_arrays)
    /\ sv_j > Len(sv_agent_arrays[sv_i].fields)
    /\ \E path \in {<<sv_agent_arrays[sv_i].protocol, ValueNetworkFile>>} :
          /\ files' = files \cup {path}
          /\ sv_writes' = Append(sv_writes, [path |-> path, of |-> <<>>])
    /\ sv_i' = sv_i + 1
    /\ sv_j' = 1
    /\ dirs' = dirs \cup {sv_agent_arrays[sv_i].protocol}
    /\ UNCHANGED <<sv_agent_arrays, sv_pc, sv_saves, params, sv_log>>
    /\ UNCHANGED notSaveVars

\* self.logger.info(f"Models saved to: {save_dir}"), and save_models returns
SaveEnd ==
    /\ sv_pc = "loop"
    /\ sv_i > Len(sv_agent_arrays)
    /\ sv_pc' = "idle"
    /\ sv_saves' = sv_saves + 1
    /\ sv_log' = Append(sv_log, "info")
    /\ UNCHANGED <<sv_agent_arrays, files, sv_i, sv_j, sv_writes, dirs, params>>
    /\ UNCHANGED notSaveVars

SaveNext ==
    \/ SaveBegin
    \/ SaveAgent
    \/ SaveValueNetwork
    \/ SaveEnd

\* the files a load_dir can hold for a trainer: a directory per protocol, in
\* it the files save_models writes
LoadDirs(arrays) ==
    {d \in [dirs : SUBSET {arrays[a].protocol : a \in DOMAIN arrays},
            files : SUBSET (Protocols \X ({AgentFile(f) : f \in FieldNames}
                                           \cup {ValueNetworkFile}))] :
        \A path \in d.files : path[1] \in d.dirs}

\* a trainer as constructed, and a load_dir that earlier runs have left
LoadInit ==
    /\ sv_agent_arrays \in {a \in AgentArrayMaps :
                               Injective([i \in DOMAIN a |-> a[i].protocol])}
    /\ \E d \in LoadDirs(sv_agent_arrays) :
          /\ dirs = d.dirs
          /\ files = d.files
    /\ sv_pc = "idle"
    /\ sv_i = 1
    /\ sv_j = 1
    /\ sv_writes = <<>>
    /\ sv_saves = 0
    /\ params = NewParams(sv_agent_arrays)
    /\ sv_log = <<>>

\* torch.load(path): the parameters the file at path holds
StoredIn(path) == path

\* if path.exists(): network.load_state_dict(torch.load(path))
LoadStateDict(network, path) ==
    [params EXCEPT ![network] = IF path \in files THEN StoredIn(path) ELSE @]

\* load_models is entered
LoadBegin ==
    /\ sv_pc = "idle"
    /\ sv_pc' = "load"
    /\ sv_i' = 1
    /\ sv_j' = 1
    /\ sv_log' = <<>>
    /\ UNCHANGED <<sv_agent_arrays, files, sv_writes, sv_saves, dirs, params>>
    /\ UNCHANGED notSaveVars

\* protocol_load_path.exists() is false: on to the next agent array
LoadSkipProtocol ==
    /\ sv_pc = "load"
    /\ sv_i <= Len(sv_agent_arrays)
    /\ sv_agent_arrays[sv_i].protocol \notin dirs
    /\ sv_i' = sv_i + 1
    /\ sv_j' = 1
    /\ UNCHANGED <<sv_agent_arrays, files, sv_pc, sv_writes, sv_saves, dirs,
                   params, sv_log>>
    /\ UNCHANGED notSaveVars

\* the next agent of the array: its policy network is loaded if its file exists
LoadAgent ==
    /\ sv_pc = "load"
    /\ sv_i <= Len(sv_agent_arrays)
    /\ sv_agent_arrays[sv_i].protocol \in dirs
    /\ sv_j <= Len(sv_agent_arrays[sv_i].fields)
    /\ params' = LoadStateDict([protocol |-> sv_agent_arrays[sv_i].protocol,
                                of |-> <<sv_agent_arrays[sv_i].fields[sv_j]>>],
                               <<sv_agent_arrays[sv_i].protocol,
                                 AgentFile(sv_agent_arrays[sv_i].fields[sv_j])>>)
    /\ sv_j' = sv_j + 1
    /\ UNCHANGED <<sv_agent_arrays, files, sv_pc, sv_i, sv_writes, sv_saves, dirs,
                   sv_log>>
    /\ UNCHANGED notSaveVars

\* after the array's agents: the shared value network is loaded if its file
\* exists, and on to the next agent array
LoadValueNetwork ==
    /\ sv_pc = "load"
    /\ sv_i <= Len(sv_agent_arrays)
    /\ sv_agent_arrays[sv_i].protocol \in dirs
    /\ sv_j > Len(sv_agent_arrays[sv_i].fields)
    /\ params' = LoadStateDict([protocol |-> sv_agent_arrays[sv_i].protocol,
                                of |-> <<>>],
                               <<sv_agent_arrays[sv_i].protocol, ValueNetworkFile>>)
    /\ sv_i' = sv_i + 1
    /\ sv_j' = 1
    /\ UNCHANGED <<sv_agent_arrays, files, sv_pc, sv_writes, sv_saves, dirs, sv_log>>
    /\ UNCHANGED notSaveVars

\* self.logger.info(f"Models loaded from {load_dir}"), and load_models returns
LoadEnd ==
    /\ sv_pc = "load"
    /\ sv_i > Len(sv_agent_arrays)
    /\ sv_pc' = "loaded"
    /\ sv_log' = Append(sv_log, "info")
    /\ UNCHANGED <<sv_agent_arrays, files, sv_i, sv_j, sv_writes, sv_saves, dirs,
                   params>>
    /\ UNCHANGED notSaveVars

LoadNext ==
    \/ LoadBegin
    \/ LoadSkipProtocol
    \/ LoadAgent
    \/ LoadValueNetwork
    \/ LoadEnd

----------------------------------------------------------------------------
(* Claims about save_models *)

\* the writes of the last save_models call into the directory of protocol p
WritesInto(p) == {i \in DOMAIN sv_writes : sv_writes[i].path[1] = p}

\* C30: save_models.  A completed save_models call has written, for every
\* protocol, into the protocol's own directory: one policy file per declared
\* field, under a name that depends on the field's name only and that no
\* other file of the directory has, and one file of the shared value
\* network: n + 1 files for n fields, each written once, and nothing else.
C30_SaveModelsFiles ==
    (sv_pc = "idle" /\ sv_saves > 0)
        => /\ \A a \in DOMAIN sv_agent_arrays :
                 LET p == sv_agent_arrays[a].protocol
                     fields == sv_agent_arrays[a].fields
                 IN  /\ Cardinality(WritesInto(p)) = Len(fields) + 1
                     /\ Cardinality({path \in files : path[1] = p}) = Len(fields) + 1
                     /\ \A j \in DOMAIN fields :
                           Cardinality({i \in WritesInto(p) :
                                           sv_writes[i].of = <<fields[j]>>}) = 1
                     /\ Cardinality({i \in WritesInto(p) : sv_writes[i].of = <<>>}) = 1
                     /\ \A i, k \in WritesInto(p) :
                           i # k => sv_writes[i].path # sv_writes[k].path
           /\ \A i, k \in DOMAIN sv_writes :
                 sv_writes[i].of = sv_writes[k].of
                    => sv_writes[i].path[2] = sv_writes[k].path[2]
           /\ \A i \in DOMAIN sv_writes :
                 \E a \in DOMAIN sv_agent_arrays :
                    sv_writes[i].path[1] = sv_agent_arrays[a].protocol
           /\ files = {sv_writes[i].path : i \in DOMAIN sv_writes}

\* C30 witness: a trainer of two protocols, each of two fields, has saved its
\* models twice: six files.
C30_Witness ==
    /\ sv_pc = "idle"
    /\ sv_saves = 2
    /\ Len(sv_agent_arrays) = 2
    /\ \A a \in DOMAIN sv_agent_arrays : Len(sv_agent_arrays[a].fields) = 2
    /\ Cardinality(files) = 6
    /\ Len(sv_writes) = 6

\* the file load_models reads for a network
FileOf(network) ==
    <<network.protocol,
      IF network.of = <<>> THEN ValueNetworkFile ELSE AgentFile(network.of[1])>>

\* C31: load_models.  A load_models call returns, and when it has returned:
\* every network whose file is present holds the parameters stored in its
\* file; every network whose file (or whose protocol's directory) is missing
\* holds the parameters it held before the call, and the call has logged a
\* warning for it.
C31_LoadModelsTolerant ==
    sv_pc = "loaded"
        => \A n \in Networks(sv_agent_arrays) :
              IF FileOf(n) \in files
              THEN params[n] = StoredIn(FileOf(n))
              ELSE /\ params[n] = <<>>
                   /\ \E i \in DOMAIN sv_log : sv_log[i] = "warning"

----------------------------------------------------------------------------
(* Part VII: the mutation engine *)

\* list(MutationAction), in declaration order (0-based in the code)
MutationAction ==
    <<"field_flipping", "field_deletion", "field_duplication", "field_truncation",
      "field_padding", "invalid_flag_injection", "fields_reordering",
      "semantic_mutation">>

\* the protocol configurations: the one of tests/test_fuzzing.py, one whose
\* only field is numeric and four bytes wide, one whose only field is empty
ProtocolConfigs ==
    { [f \in {"function_code", "data"} |->
          IF f = "function_code"
          THEN [position |-> <<0, 1>>, is_flag |-> TRUE, is_numeric |-> TRUE]
          ELSE [position |-> <<1, 5>>, is_flag |-> FALSE, is_numeric |-> FALSE]],
      [f \in {"data"} |->
          [position |-> <<0, 4>>, is_flag |-> FALSE, is_numeric |-> TRUE]],
      [f \in {"function_code"} |->
          [position |-> <<2, 2>>, is_flag |-> TRUE, is_numeric |-> FALSE]] }

\* the bytes of the messages given to the engine
MessageBytes == {1, 2, 255}

Messages == UNION {[1..n -> MessageBytes] : n \in 0..MaxMessage}

\* field names given to the engine: the declared ones and one never declared
ActionFields == FieldNames \cup {"checksum"}

\* mutation_actions: one entry with any action index, or two entries of
\* different fields with the indices of the test (flipping, deletion) and an
\* index beyond the enumeration
MutationActions ==
    {<<>>}
    \cup {<<<<f, a>>>> : f \in ActionFields, a \in 0..Len(MutationAction)}
    \cup {m \in {<<<<f, a>>, <<g, b>>>> :
                     f \in ActionFields, g \in ActionFields,
                     a \in {1}, b \in {0, 1, Len(MutationAction) + 1}} :
            m[1][1] # m[2][1]}

NoMutationRet == [op |-> "none", out |-> <<>>, raised |-> FALSE]

\* an engine, and the arguments of the call to come
MutationInit ==
    /\ protocol_config \in ProtocolConfigs
    /\ me_args \in [message : Messages, mutation_actions : MutationActions,
                    field_name : ActionFields]
    /\ me_ret = NoMutationRet

\* no engine
MutationIdle ==
    /\ protocol_config = <<>>
    /\ me_args = <<>>
    /\ me_ret = NoMutationRet

\* for i in range(i, stop): message[i] = value
RECURSIVE SetRange(_, _, _, _)
SetRange(message, i, stop, value) ==
    IF i >= stop THEN message
    ELSE SetRange([message EXCEPT ![i + 1] = value], i + 1, stop, value)

\* for i in range(i, stop): message[i] ^= 0xFF, or not: the messages that
\* can result
RECURSIVE FlipRange(_, _, _)
FlipRange(message, i, stop) ==
    IF i >= stop THEN {message}
    ELSE FlipRange(message, i + 1, stop)
         \cup FlipRange([message EXCEPT ![i + 1] = 255 - @], i + 1, stop)

\* _flip_field
FlipField(message, field_name) ==
    LET pos == protocol_config[field_name].position
    IN  FlipRange(message, pos[1], Min(pos[2], Len(message)))

\* a deletion that zeroes the message from the field's start to its end
DeleteFieldToEndOfMessage(message, field_name) ==
    LET pos == protocol_config[field_name].position
    IN  SetRange(message, pos[1], Len(message), 0)

\* _delete_field
DeleteField(message, field_name) ==
    LET pos == protocol_config[field_name].position
    IN  SetRange(message, pos[1], Min(pos[2], Len(message)), 0)

\* message[start:end] for 0 <= start, 0 <= end
Slice(message, start, end) ==
    IF start >= Min(end, Len(message)) THEN <<>>
    ELSE SubSeq(message, start + 1, Min(end, Len(message)))

\* _duplicate_field
DuplicateField(message, field_name) ==
    LET pos == protocol_config[field_name].position
    IN  message \o Slice(message, pos[1], pos[2])

\* _truncate_message: random.randint(len // 2, int(len * 0.9))
TruncateMessage(message) ==
    {Slice(message, 0, new_length) :
        new_length \in (Len(message) \div 2)..((9 * Len(message)) \div 10)}

\* _pad_field: 1..MaxPadding random bytes
PadField(message) ==
    {message \o padding :
        padding \in UNION {[1..n -> {0, 255}] : n \in 1..MaxPadding}}

\* _inject_invalid_flag
InjectInvalidFlag(message, field_name) ==
    LET pos == protocol_config[field_name].position
    IN  IF protocol_config[field_name].is_flag
        THEN {SetRange(message, pos[1], Min(pos[2], Len(message)),
                       invalid_value) : invalid_value \in {255, 0, 127}}
        ELSE {message}

\* _reorder_fields
ReorderFields(message) ==
    IF Len(message) >= 2
    THEN {[message EXCEPT ![idx[1]] = message[idx[2]], ![idx[2]] = message[idx[1]]] :
             idx \in {i \in (DOMAIN message) \X (DOMAIN message) : i[1] # i[2]}}
    ELSE {message}

\* struct.pack('>I', extreme_value & 0xFFFFFFFF) of the extreme values
PackedExtremeValues ==
    {<<0, 0, 0, 0>>, <<255, 255, 255, 255>>, <<127, 255, 255, 255>>,
     <<128, 0, 0, 0>>}

\* _mutate_semantics
MutateSemantics(message, field_name) ==
    LET pos == protocol_config[field_name].position
    IN  IF protocol_config[field_name].is_numeric /\ pos[2] - pos[1] >= 4
        THEN {[i \in DOMAIN message |->
                  IF i - 1 - pos[1] \in 0..3
                  THEN packed_value[i - pos[1]] ELSE message[i]] :
                 packed_value \in PackedExtremeValues}
        ELSE {message}

\* strategy(mutated_message, field_name): the messages that can result
Strategy(action, message, field_name) ==
    CASE action = "field_flipping" -> FlipField(message, field_name)
      [] action = "field_deletion" -> {DeleteField(message, field_name)}
      [] action = "field_duplication" -> {DuplicateField(message, field_name)}
      [] action = "field_truncation" -> TruncateMessage(message)
      [] action = "field_padding" -> PadField(message)
      [] action = "invalid_flag_injection" -> InjectInvalidFlag(message, field_name)
      [] action = "fields_reordering" -> ReorderFields(message)
      [] action = "semantic_mutation" -> MutateSemantics(message, field_name)

\* field_name in self.protocol_config['fields']
InProtocolConfig(field_name) == field_name \in DOMAIN protocol_config

\* the loop of mutate_protocol_message over mutation_actions.items(): the
\* messages that can result
RECURSIVE MutateProtocolMessage(_, _)
MutateProtocolMessage(message, mutation_actions) ==
    IF mutation_actions = <<>> THEN {message}
    ELSE LET field_name == Head(mutation_actions)[1]
             action_idx == Head(mutation_actions)[2]
             action == MutationAction[(action_idx % Len(MutationAction)) + 1]
         IN  IF InProtocolConfig(field_name)
             THEN UNION {MutateProtocolMessage(mutated, Tail(mutation_actions)) :
                            mutated \in Strategy(action, message, field_name)}
             ELSE MutateProtocolMessage(message, Tail(mutation_actions))

\* mutate_protocol_message(message, mutation_actions) is called and returns
MutateCall ==
    /\ me_ret.op = "none"
    /\ \E out \in MutateProtocolMessage(me_args.message, me_args.mutation_actions) :
          me_ret' = [op |-> "mutate_protocol_message", out |-> out, raised |-> FALSE]
    /\ UNCHANGED <<protocol_config, me_args>>
    /\ UNCHANGED notMutationVars

\* _delete_field(bytearray(message), field_name) is called and returns, or
\* raises KeyError at self.protocol_config['fields'][field_name]
DeleteFieldCall ==
    /\ me_ret.op = "none"
    /\ me_ret' = IF InProtocolConfig(me_args.field_name)
                 THEN [op |-> "_delete_field",
                       out |-> DeleteField(me_args.message, me_args.field_name),
                       raised |-> FALSE]
                 ELSE [op |-> "_delete_field", out |-> me_args.message,
                       raised |-> TRUE]
    /\ UNCHANGED <<protocol_config, me_args>>
    /\ UNCHANGED notMutationVars

MutationNext ==
    \/ MutateCall
    \/ DeleteFieldCall

----------------------------------------------------------------------------
(* Claims about the mutation engine *)

\* the entry of mutation_actions names a declared field
OfDeclaredField(entry) == entry[1] \in DOMAIN protocol_config

\* byte index i (0-based) lies in the position range of field f, cut at the
\* length of the message
InRange(i, f, message) ==
    /\ protocol_config[f].position[1] <= i
    /\ i < protocol_config[f].position[2]
    /\ i < Len(message)

\* C32: field deletion.  _delete_field returns a message of the same length
\* in which every byte inside [start, min(end, len)) of the field's position
\* is 0x00 and every other byte is as given.  mutate_protocol_message returns
\* a message that its strategies produce from the entries of the declared
\* fields alone: with no entry of a declared field the message is returned
\* as given, and with deletions only the result is the message with exactly
\* the bytes in the ranges of the declared fields named set to 0x00.
C32_DeleteFieldZeroesRange ==
    /\ (me_ret.op = "_delete_field" /\ ~me_ret.raised)
          => /\ Len(me_ret.out) = Len(me_args.message)
             /\ \A i \in DOMAIN me_args.message :
                   me_ret.out[i] =
                      IF InRange(i - 1, me_args.field_name, me_args.message)
                      THEN 0 ELSE me_args.message[i]
    /\ me_ret.op = "mutate_protocol_message"
          => LET declared == SelectSeq(me_args.mutation_actions, OfDeclaredField)
             IN  /\ me_ret.out \in MutateProtocolMessage(me_args.message, declared)
                 /\ declared = <<>> => me_ret.out = me_args.message
                 /\ (\A e \in DOMAIN declared :
                        MutationAction[(declared[e][2] % Len(MutationAction)) + 1]
                           = "field_deletion")
                       => /\ Len(me_ret.out) = Len(me_args.message)
                          /\ \A i \in DOMAIN me_args.message :
                                me_ret.out[i] =
                                   IF \E e \in DOMAIN declared :
                                         InRange(i - 1, declared[e][1], me_args.message)
                                   THEN 0 ELSE me_args.message[i]

\* C32 witness: with the configuration of the test, the message 01 02 03 and
\* deletions asked for an undeclared field and for data (position [1, 5],
\* beyond the message's end), mutate_protocol_message has returned 01 00 00.
C32_Witness ==
    /\ me_ret.op = "mutate_protocol_message"
    /\ DOMAIN protocol_config = {"function_code", "data"}
    /\ me_args.message = <<1, 2, 255>>
    /\ me_args.mutation_actions = <<<<"checksum", 1>>, <<"data", 1>>>>
    /\ me_ret.out = <<1, 0, 0>>

----------------------------------------------------------------------------
(* Part VIII: the coverage tracker *)

\* what the callers pass: lists of block and function names, and execution
\* sequences.  The lists are those of the tests and ones with a name twice;
\* the elements of an execution sequence are whatever the instrumentation
\* names a step: a block ("bb1") or an edge ("bb1->bb2").
BasicBlockLists == {<<"bb1">>, <<"bb1", "bb2", "bb1">>, <<"bb1", "bb2", "bb3">>}

FunctionLists == {<<"func1">>, <<"func1", "func2">>}

ExecutionSequences ==
    {<<>>, <<"bb1", "bb2">>, <<"bb1->bb2">>, <<"bb1", "bb2", "bb1", "bb3">>}

\* the pairs set_total_counts is called with
TotalCounts == {<<0, 0>>, <<100, 50>>}

\* set(items)
SetOf(items) == {items[i] : i \in DOMAIN items}

\* sep.join(strings)
RECURSIVE Join(_, _)
Join(sep, strings) ==
    IF strings = <<>> THEN ""
    ELSE IF Len(strings) = 1 THEN strings[1]
    ELSE strings[1] \o sep \o Join(sep, Tail(strings))

\* hashlib.md5(s.encode()).hexdigest(): a digest that is the same for the
\* same string; no two of the strings of the model have the same digest
Md5(s) == <<"md5", s>>

HashExecutionPath(execution_sequence) == Md5(Join("->", execution_sequence))

\* defaultdict(int): d[key] += 1
Increment(d, key) ==
    [k \in DOMAIN d \cup {key} |->
        IF k = key THEN (IF k \in DOMAIN d THEN d[k] ELSE 0) + 1 ELSE d[k]]

EmptyDict == [k \in {} |-> 0]

NoCoverageHist == [recorded |-> {}, last |-> <<>>, calls |-> 0]

NoCoverageRet == [op |-> "none", args |-> <<>>, before |-> <<>>, hist |-> <<>>,
                  out |-> <<>>]

\* CoverageTracker()
CoverageInit ==
    /\ basic_blocks_covered = {}
    /\ functions_covered = {}
    /\ execution_paths = {}
    /\ coverage_stats = [total_basic_blocks |-> 0, total_functions |-> 0,
                         unique_paths |-> 0, coverage_over_time |-> <<>>]
    /\ path_depths = EmptyDict
    /\ cv_hist = NoCoverageHist
    /\ cv_ret = NoCoverageRet

CoverageIdle == CoverageInit

\* the three sets, as a call finds them
CoveredNow ==
    [basic_blocks_covered |-> basic_blocks_covered,
     functions_covered |-> functions_covered,
     execution_paths |-> execution_paths]

\* the dict _update_coverage_stats builds from the sets as updated
CoverageData(blocks, functions, paths) ==
    [basic_block_coverage |->
        Rat(Cardinality(blocks), Max(1, coverage_stats.total_basic_blocks)),
     function_coverage |->
        Rat(Cardinality(functions), Max(1, coverage_stats.total_functions)),
     path_coverage |-> Cardinality(paths),
     total_paths |-> Cardinality(paths),
     unique_basic_blocks |-> Cardinality(blocks),
     unique_functions |-> Cardinality(functions)]

\* record_execution(basic_blocks, functions, execution_sequence).  The dict
\* appended to coverage_over_time is the dict returned, so the four entries
\* added before the return show in the list too.
RecordExecution ==
    /\ cv_hist.calls < MaxRecords
    /\ \E basic_blocks \in BasicBlockLists, functions \in FunctionLists,
          execution_sequence \in ExecutionSequences :
          LET new_blocks == SetOf(basic_blocks) \ basic_blocks_covered
              new_functions == SetOf(functions) \ functions_covered
              path_hash == HashExecutionPath(execution_sequence)
              is_new_path == path_hash \notin execution_paths
              path_depth == Len(execution_sequence)
              blocks == basic_blocks_covered \cup SetOf(basic_blocks)
              funcs == functions_covered \cup SetOf(functions)
              paths == IF is_new_path THEN execution_paths \cup {path_hash}
                       ELSE execution_paths
              stats == CoverageData(blocks, funcs, paths)
              coverage_data ==
                  [basic_block_coverage |-> stats.basic_block_coverage,
                   function_coverage |-> stats.function_coverage,
                   path_coverage |-> stats.path_coverage,
                   total_paths |-> stats.total_paths,
                   unique_basic_blocks |-> stats.unique_basic_blocks,
                   unique_functions |-> stats.unique_functions,
                   new_blocks |-> Cardinality(new_blocks),
                   new_functions |-> Cardinality(new_functions),
                   new_path |-> is_new_path,
                   path_depth |-> path_depth]
              args == [basic_blocks |-> basic_blocks, functions |-> functions,
                       execution_sequence |-> execution_sequence]
          IN  /\ basic_blocks_covered' = blocks
              /\ functions_covered' = funcs
              /\ execution_paths' = paths
              /\ path_depths' = Increment(path_depths, path_depth)
              /\ coverage_stats' =
                    [coverage_stats EXCEPT !.coverage_over_time =
                        Append(@, coverage_data)]
              /\ cv_hist' = [recorded |-> cv_hist.recorded \cup {execution_sequence},
                             last |-> <<args>>,
                             calls |-> cv_hist.calls + 1]
              /\ cv_ret' = [op |-> "record_execution", args |-> args,
                            before |-> CoveredNow, hist |-> cv_hist,
                            out |-> coverage_data]
    /\ UNCHANGED notCoverageVars

\* set_total_counts(total_basic_blocks, total_functions)
SetTotalCounts ==
    /\ \E totals \in TotalCounts :
          /\ coverage_stats' = [coverage_stats EXCEPT
                                   !.total_basic_blocks = totals[1],
                                   !.total_functions = totals[2]]
          /\ cv_ret' = [op |-> "set_total_counts", args |-> totals,
                        before |-> CoveredNow, hist |-> cv_hist, out |-> <<>>]
    /\ UNCHANGED <<basic_blocks_covered, functions_covered, execution_paths,
                   path_depths, cv_hist>>
    /\ UNCHANGED notCoverageVars

\* reset_coverage()
ResetCoverage ==
    /\ basic_blocks_covered' = {}
    /\ functions_covered' = {}
    /\ execution_paths' = {}
    /\ coverage_stats' = [coverage_stats EXCEPT !.coverage_over_time = <<>>]
    /\ path_depths' = EmptyDict
    /\ cv_hist' = [cv_hist EXCEPT !.recorded = {}, !.last = <<>>]
    /\ cv_ret' = [op |-> "reset_coverage", args |-> <<>>, before |-> CoveredNow,
                  hist |-> cv_hist, out |-> <<>>]
    /\ UNCHANGED notCoverageVars

CoverageNext ==
    \/ RecordExecution
    \/ SetTotalCounts
    \/ ResetCoverage

----------------------------------------------------------------------------
(* Claims about the coverage tracker *)

\* C39: record_execution.  Between reset_coverage calls the covered
\* basic-block, function and path sets only grow; the new_blocks and
\* new_functions reported are the numbers of distinct blocks and functions
\* of the call that were not covered before it; new_path is true iff the
\* same execution sequence was not recorded since the last reset; and the
\* second of two recordings of the same execution reports 0 new blocks, 0
\* new functions and new_path false.
C39_RecordExecutionReports ==
    /\ [](cv_ret.op = "record_execution" =>
            /\ cv_ret.out.new_blocks =
                  Cardinality(SetOf(cv_ret.args.basic_blocks)
                                 \ cv_ret.before.basic_blocks_covered)
            /\ cv_ret.out.new_functions =
                  Cardinality(SetOf(cv_ret.args.functions)
                                 \ cv_ret.before.functions_covered)
            /\ cv_ret.out.new_path
                  <=> cv_ret.args.execution_sequence \notin cv_ret.hist.recorded
            /\ cv_ret.hist.last = <<cv_ret.args>>
                  => /\ cv_ret.out.new_blocks = 0
                     /\ cv_ret.out.new_functions = 0
                     /\ ~cv_ret.out.new_path)
    /\ [][cv_ret'.op # "reset_coverage" =>
             /\ basic_blocks_covered \subseteq basic_blocks_covered'
             /\ functions_covered \subseteq functions_covered'
             /\ execution_paths \subseteq execution_paths']_vars

----------------------------------------------------------------------------

StoreNext ==
    \/ Add
    \/ PrioritizedAdd
    \/ Sample
    \/ PrioritizedSample
    \/ UpdatePriorities
    \/ Clear

\* the store alone
InitStore == StoreInit /\ CoordIdle /\ TrainIdle /\ ArrayIdle /\ RewardIdle /\ SaveIdle /\ MutationIdle
              /\ CoverageIdle

SpecStore == InitStore /\ [][StoreNext]_vars

\* the coordinator alone
InitCoord == CoordInit /\ StoreIdle /\ TrainIdle /\ ArrayIdle /\ RewardIdle /\ SaveIdle /\ MutationIdle
              /\ CoverageIdle

SpecCoord == InitCoord /\ [][CoordNext]_vars

\* a coordinator of an agent array per protocol with a configured worker bound
InitCoordBound == CoordBoundInit /\ StoreIdle /\ TrainIdle /\ ArrayIdle /\ RewardIdle /\ SaveIdle /\ MutationIdle
              /\ CoverageIdle

SpecCoordBound == InitCoordBound /\ [][CoordNext]_vars

\* a coordinator of an agent array per protocol, with every thread running
\* on: a step that the coordinating thread or a worker can take is taken
InitCoordFair == InitCoord /\ agent_arrays = Protocols

SpecCoordFair == InitCoordFair /\ [][CoordNext]_vars /\ WF_vars(CoordNext)

\* a coordinator of one agent array alone, with an environment that reports
\* vulnerabilities
InitCoordStats == CoordStatsInit /\ StoreIdle /\ TrainIdle /\ ArrayIdle /\ RewardIdle /\ SaveIdle /\ MutationIdle
              /\ CoverageIdle

SpecCoordStats == InitCoordStats /\ [][CoordNext]_vars

\* the trainer alone, in train(1)
InitTrain == TrainInit /\ StoreIdle /\ CoordIdle /\ ArrayIdle /\ RewardIdle /\ SaveIdle /\ MutationIdle
              /\ CoverageIdle

SpecTrain == InitTrain /\ [][TrainNext]_vars

\* the trainer alone, in train(num_episodes)
InitTrainStats == TrainStatsInit /\ StoreIdle /\ CoordIdle /\ ArrayIdle /\ RewardIdle /\ SaveIdle /\ MutationIdle
              /\ CoverageIdle

SpecTrainStats == InitTrainStats /\ [][TrainNext]_vars

\* train(num_episodes) with every call returning: a step of the trainer that
\* can be taken is taken
SpecTrainStatsFair == SpecTrainStats /\ WF_vars(TrainNext)

\* the agent array alone
InitArray == ArrayInit /\ StoreIdle /\ CoordIdle /\ TrainIdle /\ RewardIdle /\ SaveIdle /\ MutationIdle
              /\ CoverageIdle

SpecArray == InitArray /\ [][ArrayNext]_vars

\* the reward calculator alone
InitReward == RewardInit /\ StoreIdle /\ CoordIdle /\ TrainIdle /\ ArrayIdle /\ SaveIdle /\ MutationIdle
              /\ CoverageIdle

SpecReward == InitReward /\ [][RewardNext]_vars

\* save_models alone
InitSave == SaveInit /\ StoreIdle /\ CoordIdle /\ TrainIdle /\ ArrayIdle /\ RewardIdle /\ MutationIdle
              /\ CoverageIdle

SpecSave == InitSave /\ [][SaveNext]_vars

\* load_models alone
InitLoad == LoadInit /\ StoreIdle /\ CoordIdle /\ TrainIdle /\ ArrayIdle /\ RewardIdle /\ MutationIdle
              /\ CoverageIdle

SpecLoad == InitLoad /\ [][LoadNext]_vars

\* the mutation engine alone
InitMutation == MutationInit /\ StoreIdle /\ CoordIdle /\ TrainIdle /\ ArrayIdle /\ RewardIdle /\ SaveIdle
                /\ CoverageIdle

SpecMutation == InitMutation /\ [][MutationNext]_vars

\* a coverage tracker alone
InitCoverage == CoverageInit /\ StoreIdle /\ CoordIdle /\ TrainIdle /\ ArrayIdle /\ RewardIdle
                /\ SaveIdle /\ MutationIdle

SpecCoverage == InitCoverage /\ [][CoverageNext]_vars

Init == InitStore \/ InitCoord \/ InitCoordStats \/ InitTrain \/ InitTrainStats
        \/ InitArray \/ InitReward \/ InitSave \/ InitLoad \/ InitMutation \/ InitCoordFair
        \/ InitCoordBound \/ InitCoverage

Next == StoreNext \/ CoordNext \/ TrainNext \/ ArrayNext \/ RewardNext \/ SaveNext
        \/ LoadNext \/ MutationNext \/ CoverageNext

Spec == Init /\ [][Next]_vars
=============================================================================
